---- MODULE Spec2Model ----
(***************************************************************************)
(* Snake game (ElijahDelaRosa/python_snake_game): the level / apple /      *)
(* obstacle game-loop logic of src/game_objects.py, src/level_manager.py   *)
(* and src/game_controller.py as a state machine.                          *)
(*                                                                         *)
(* Vector2 values are pairs <<x, y>>.  Times are milliseconds of           *)
(* pygame.time.get_ticks().                                                *)
(***************************************************************************)
EXTENDS Integers, Sequences, FiniteSets, TLC

VARIABLES
    game_state,             \* GameController.game_state
    difficulty,             \* GameController.difficulty
    settings,               \* key of GameController.current_difficulty_settings
    lm,                     \* LevelManager: [difficulty, current_level_index]
    score,                  \* GameController.score
    snake,                  \* Snake: [body, direction, new_block, initial_pos]
    apples,                 \* GameController.apples: sequence of Fruit records
    wall,                   \* Wall.positions (as a set of cells)
    last_wall_change_time,  \* GameController.last_wall_change_time
    state_transition_time,  \* GameController.state_transition_time
    now,                    \* pygame.time.get_ticks()
    player_id,              \* GameController.player_id (0 is None)
    player_db,              \* the player's row of the players table
    level_buttons,          \* the level buttons last generated: for which
                            \* difficulty, and the unlocked level they show
    obs                     \* last operation applied and what it returned

vars == <<game_state, difficulty, settings, lm, score, snake, apples, wall,
          last_wall_change_time, state_transition_time, now, player_id,
          player_db, level_buttons, obs>>

----------------------------------------------------------------------------
(* Bounds of the model *)

\* side of the grid used for every difficulty (the program uses 20/25/30)
CellNumber == 8
\* number of SCREEN_UPDATE ticks handled in one run of the program
MaxTicks == 3
\* the clock advances in steps of TimeStep, at most MaxSteps times
TimeStep == 7000
MaxSteps == 2
\* random.choice of an apple cell is taken among the ApplePool free cells
\* nearest to the snake's head
ApplePool == 2
\* the obstacles of a level are drawn among the (count + WallSlack) possible
\* cells nearest to the snake's head
WallSlack == 1
\* coordinates and length of the snakes of the Snake-only specification
SnakeBox == 3
MaxLen == 4
\* largest clock value of the Fruit-only specification
MaxClock == 20000
\* number of poisonous apples eaten in the level-tracker specification
MaxPoisonEvents == 2
\* number of times ESC pauses the game in one run of the program
MaxPauses == 1
\* side of the grid of the Fruit.randomize specification
PlaceGrid == 2
\* current_level_index is looked up from IndexSlack below 0 to IndexSlack
\* past the last level
IndexSlack == 2
\* number of SCREEN_UPDATE ticks handled in one run of the board
\* specification, and of the specification that plays level 1 to the edge
MaxBoardTicks == 2
MaxEdgeTicks == 4
\* number of SCREEN_UPDATE ticks handled in one run of the specification
\* that plays level 3 of Hard into its obstacles
MaxCrashTicks == 4

----------------------------------------------------------------------------
(* config.py *)

Difficulties == {"Easy", "Moderate", "Hard"}

INF == 1000000000

DIFFICULTY_SETTINGS ==
    [Easy     |-> [base_speed |-> 250, obstacle_speed_factor_x10 |-> 12,
                   apple_expiry_enabled |-> FALSE,
                   apple_total_life |-> INF, apple_warning_time |-> INF,
                   poison_apple_life |-> 5000, cell_number |-> CellNumber],
     Moderate |-> [base_speed |-> 200, obstacle_speed_factor_x10 |-> 10,
                   apple_expiry_enabled |-> TRUE,
                   apple_total_life |-> 15000, apple_warning_time |-> 5000,
                   poison_apple_life |-> 3500, cell_number |-> CellNumber],
     Hard     |-> [base_speed |-> 150, obstacle_speed_factor_x10 |-> 8,
                   apple_expiry_enabled |-> TRUE,
                   apple_total_life |-> 10000, apple_warning_time |-> 3000,
                   poison_apple_life |-> 2000, cell_number |-> CellNumber]]

DEFAULT_DIFFICULTY == "Moderate"

LevelCfg(l, t, a, o, d) ==
    [level |-> l, target_score |-> t, num_apples |-> a, num_obstacles |-> o,
     apple_spawn_delay |-> d]

LEVEL_CONFIG ==
    [Easy     |-> << LevelCfg(1, 5, 1, 0, 500),  LevelCfg(2, 10, 1, 3, 500),
                     LevelCfg(3, 15, 2, 5, 700), LevelCfg(4, 20, 2, 7, 700),
                     LevelCfg(5, 25, 3, 10, 1000) >>,
     Moderate |-> << LevelCfg(1, 10, 1, 0, 500), LevelCfg(2, 20, 1, 3, 500),
                     LevelCfg(3, 30, 2, 5, 700), LevelCfg(4, 40, 2, 7, 700),
                     LevelCfg(5, 50, 3, 10, 1000) >>,
     Hard     |-> << LevelCfg(1, 15, 1, 0, 500), LevelCfg(2, 25, 1, 3, 500),
                     LevelCfg(3, 40, 2, 5, 600), LevelCfg(4, 55, 2, 7, 600),
                     LevelCfg(5, 70, 3, 10, 800) >>]

\* GameState enum
GameStates == {"NAME_INPUT", "WELCOME", "MAIN_MENU", "OPTIONS_MENU",
               "CHANGE_NAME", "DIFFICULTY_SELECT", "LEVEL_SELECT", "PLAYING",
               "PAUSED", "LEVEL_TRANSITION", "GAME_OVER", "GAME_COMPLETED",
               "QUITTING"}

\* AppleState
GOOD == "good"
WARNING == "warning"
POISONOUS == "poisonous"
EXPIRED == "expired"
AppleStates == {GOOD, WARNING, POISONOUS, EXPIRED}

----------------------------------------------------------------------------
(* Vector2 *)

Zero == <<0, 0>>
VAdd(a, b) == <<a[1] + b[1], a[2] + b[2]>>
VNeg(a) == <<0 - a[1], 0 - a[2]>>
UP == <<0, -1>>
DOWN == <<0, 1>>
LEFT == <<-1, 0>>
RIGHT == <<1, 0>>
Directions == {UP, DOWN, LEFT, RIGHT}
OffGrid == <<-1, -1>>

Abs(n) == IF n < 0 THEN 0 - n ELSE n
Max(a, b) == IF a >= b THEN a ELSE b
Min(a, b) == IF a <= b THEN a ELSE b
Manhattan(a, b) == Abs(a[1] - b[1]) + Abs(a[2] - b[2])

\* s[1..n]
Prefix(s, n) == SubSeq(s, 1, n)
SeqToSet(s) == {s[i] : i \in 1..Len(s)}

----------------------------------------------------------------------------
(* game_objects.py: Snake *)

\* Snake.reset: head at initial_pos, two segments to its left, stationary
Snake_reset(s) ==
    [s EXCEPT !.body = << s.initial_pos,
                          <<s.initial_pos[1] - 1, s.initial_pos[2]>>,
                          <<s.initial_pos[1] - 2, s.initial_pos[2]>> >>,
              !.direction = Zero,
              !.new_block = FALSE]

\* Snake.__init__
Snake_new(initial_pos) ==
    Snake_reset([body |-> <<>>, direction |-> Zero, new_block |-> FALSE,
                 initial_pos |-> initial_pos])

\* a move that advances the head two cells; C22 tells it apart
Snake_move_two_cells(s) ==
    IF s.direction = Zero
    THEN s
    ELSE LET body_segments == IF ~s.new_block
                              THEN Prefix(s.body, Len(s.body) - 1)
                              ELSE s.body
             new_head == VAdd(VAdd(s.body[1], s.direction), s.direction)
         IN  [s EXCEPT !.body = <<new_head>> \o body_segments,
                       !.new_block = FALSE]

\* Snake.move leaving the growth flag set (C5 tells it apart)
Snake_move_keeps_flag(s) ==
    IF s.direction = Zero
    THEN s
    ELSE LET body_segments == IF ~s.new_block
                              THEN Prefix(s.body, Len(s.body) - 1)
                              ELSE s.body
             new_head == VAdd(s.body[1], s.direction)
         IN  [s EXCEPT !.body = <<new_head>> \o body_segments]

\* Snake.move
Snake_move(s) ==
    IF s.direction = Zero
    THEN s
    ELSE LET body_segments == IF ~s.new_block
                              THEN Prefix(s.body, Len(s.body) - 1)
                              ELSE s.body
             new_head == VAdd(s.body[1], s.direction)
         IN  [s EXCEPT !.body = <<new_head>> \o body_segments,
                       !.new_block = FALSE]

\* Snake.grow
Snake_grow(s) == [s EXCEPT !.new_block = TRUE]

\* a shrink that also removes the last remaining segment; C21 tells it apart
Snake_shrink_to_empty(s) ==
    IF Len(s.body) > 0
    THEN [s EXCEPT !.body = Prefix(s.body, Len(s.body) - 1)]
    ELSE s

\* Snake.shrink: the snake after the call; Snake_shrink_ret is its result
Snake_shrink(s) ==
    IF Len(s.body) > 1
    THEN [s EXCEPT !.body = Prefix(s.body, Len(s.body) - 1)]
    ELSE s

Snake_shrink_ret(s) == Len(s.body) > 1

\* Snake.change_direction rejecting a reversal whatever the length (C6 tells
\* it apart)
Snake_change_direction_any_length(s, d) ==
    IF VAdd(d, s.direction) # Zero
    THEN [s EXCEPT !.direction = d]
    ELSE s

\* Snake.change_direction
Snake_change_direction(s, d) ==
    IF Len(s.body) > 1
    THEN IF VAdd(d, s.direction) # Zero
         THEN [s EXCEPT !.direction = d]
         ELSE s
    ELSE [s EXCEPT !.direction = d]

\* a check_bounds_collision that lets the head one cell past the right and
\* bottom edges; C20 tells it apart
Snake_check_bounds_collision_past_edge(s, cell_number) ==
    LET head == s.body[1]
    IN  \/ head[1] < 0 \/ head[1] > cell_number
        \/ head[2] < 0 \/ head[2] > cell_number

\* Snake.check_bounds_collision
Snake_check_bounds_collision(s, cell_number) ==
    LET head == s.body[1]
    IN  \/ head[1] < 0 \/ head[1] >= cell_number
        \/ head[2] < 0 \/ head[2] >= cell_number

\* a self collision check that looks at the segment behind the head only,
\* which the head never meets; C29 tells it apart
Snake_check_collision_with_self_neck_only(s) ==
    Len(s.body) > 1 /\ s.body[2] = s.body[1]

\* Snake.check_collision_with_self
Snake_check_collision_with_self(s) ==
    \E i \in 2..Len(s.body) : s.body[i] = s.body[1]

----------------------------------------------------------------------------
(* game_objects.py: Fruit *)

\* Fruit.__init__
Fruit_new(d) ==
    [pos |-> OffGrid, state |-> GOOD, spawn_time |-> 0, is_active |-> FALSE,
     time_to_live |-> DIFFICULTY_SETTINGS[d].apple_total_life,
     time_to_warn |-> DIFFICULTY_SETTINGS[d].apple_warning_time,
     expiry_enabled |-> DIFFICULTY_SETTINGS[d].apple_expiry_enabled,
     poison_time_to_live |-> DIFFICULTY_SETTINGS[d].poison_apple_life]

\* Fruit.set_state; ticks is the value of pygame.time.get_ticks()
Fruit_set_state(f, new_state, ticks) ==
    IF new_state = GOOD \/ new_state = POISONOUS
    THEN [f EXCEPT !.state = new_state, !.spawn_time = ticks]
    ELSE [f EXCEPT !.state = new_state]

\* Fruit.update_state comparing the warning threshold with > (C1 tells it
\* apart)
Fruit_update_state_strict_warning(f, current_time, ticks) ==
    IF ~f.is_active THEN f
    ELSE LET elapsed_time == current_time - f.spawn_time IN
         IF f.state = POISONOUS /\ elapsed_time >= f.poison_time_to_live
         THEN Fruit_set_state(f, EXPIRED, ticks)
         ELSE IF ~f.expiry_enabled THEN f
         ELSE IF f.state = GOOD
                 /\ elapsed_time > f.time_to_live - f.time_to_warn
         THEN Fruit_set_state(f, WARNING, ticks)
         ELSE IF f.state = WARNING /\ elapsed_time >= f.time_to_live
         THEN [Fruit_set_state(f, POISONOUS, ticks)
                  EXCEPT !.spawn_time = current_time]
         ELSE f

\* Fruit.update_state turning a WARNING apple POISONOUS without restarting
\* its spawn_time (C2 tells it apart)
Fruit_update_state_keeps_spawn_time(f, current_time, ticks) ==
    IF ~f.is_active THEN f
    ELSE LET elapsed_time == current_time - f.spawn_time IN
         IF f.state = POISONOUS /\ elapsed_time >= f.poison_time_to_live
         THEN Fruit_set_state(f, EXPIRED, ticks)
         ELSE IF ~f.expiry_enabled THEN f
         ELSE IF f.state = GOOD
                 /\ elapsed_time >= f.time_to_live - f.time_to_warn
         THEN Fruit_set_state(f, WARNING, ticks)
         ELSE IF f.state = WARNING /\ elapsed_time >= f.time_to_live
         THEN [f EXCEPT !.state = POISONOUS]
         ELSE f

\* Fruit.update_state returning for a difficulty without expiry before it
\* looks at a poisonous apple (C3 tells it apart)
Fruit_update_state_expiry_first(f, current_time, ticks) ==
    IF ~f.is_active \/ ~f.expiry_enabled THEN f
    ELSE LET elapsed_time == current_time - f.spawn_time IN
         IF f.state = POISONOUS /\ elapsed_time >= f.poison_time_to_live
         THEN Fruit_set_state(f, EXPIRED, ticks)
         ELSE IF f.state = GOOD
                 /\ elapsed_time >= f.time_to_live - f.time_to_warn
         THEN Fruit_set_state(f, WARNING, ticks)
         ELSE IF f.state = WARNING /\ elapsed_time >= f.time_to_live
         THEN [Fruit_set_state(f, POISONOUS, ticks)
                  EXCEPT !.spawn_time = current_time]
         ELSE f

\* Fruit.update_state with the WARNING test as a second if instead of an elif
\* (C35 tells it apart)
Fruit_update_state_falls_through(f, current_time, ticks) ==
    IF ~f.is_active THEN f
    ELSE LET elapsed_time == current_time - f.spawn_time IN
         IF f.state = POISONOUS /\ elapsed_time >= f.poison_time_to_live
         THEN Fruit_set_state(f, EXPIRED, ticks)
         ELSE IF ~f.expiry_enabled THEN f
         ELSE LET g == IF f.state = GOOD
                          /\ elapsed_time >= f.time_to_live - f.time_to_warn
                       THEN Fruit_set_state(f, WARNING, ticks)
                       ELSE f
              IN IF g.state = WARNING /\ elapsed_time >= g.time_to_live
                 THEN [Fruit_set_state(g, POISONOUS, ticks)
                          EXCEPT !.spawn_time = current_time]
                 ELSE g

\* Fruit.update_state(current_time); ticks is pygame.time.get_ticks() at the
\* call (current_time was sampled at the top of the frame)
Fruit_update_state(f, current_time, ticks) ==
    IF ~f.is_active THEN f
    ELSE LET elapsed_time == current_time - f.spawn_time IN
         IF f.state = POISONOUS /\ elapsed_time >= f.poison_time_to_live
         THEN Fruit_set_state(f, EXPIRED, ticks)
         ELSE IF ~f.expiry_enabled THEN f
         ELSE IF f.state = GOOD
                 /\ elapsed_time >= f.time_to_live - f.time_to_warn
         THEN Fruit_set_state(f, WARNING, ticks)
         ELSE IF f.state = WARNING /\ elapsed_time >= f.time_to_live
         THEN [Fruit_set_state(f, POISONOUS, ticks)
                  EXCEPT !.spawn_time = current_time]
         ELSE f

\* the free cells Fruit.randomize enumerates
Fruit_possible_positions(cell_number, occupied_positions) ==
    {<<c, r>> : c \in 0..(cell_number - 1), r \in 0..(cell_number - 1)}
        \ occupied_positions

\* Fruit.randomize when no cell is free
Fruit_randomize_fail(f) == [f EXCEPT !.is_active = FALSE, !.pos = OffGrid]

\* Fruit.randomize when random.choice returned pos and the poison roll was
\* poison
Fruit_randomize_at(f, pos, poison, ticks) ==
    Fruit_set_state([f EXCEPT !.pos = pos, !.is_active = TRUE],
                    IF poison THEN POISONOUS ELSE GOOD, ticks)

----------------------------------------------------------------------------
(* level_manager.py *)

\* LevelManager.__init__
LevelManager_new == [difficulty |-> DEFAULT_DIFFICULTY, current_level_index |-> 0]

\* a set_difficulty that keeps the index when the difficulty is the one
\* already set; C24 tells it apart
set_difficulty_keeps_index(m, d) ==
    IF d \in DOMAIN LEVEL_CONFIG
    THEN [difficulty |-> d,
          current_level_index |-> IF d = m.difficulty
                                  THEN m.current_level_index ELSE 0]
    ELSE [difficulty |-> DEFAULT_DIFFICULTY, current_level_index |-> 0]

\* LevelManager.set_difficulty
set_difficulty(m, d) ==
    IF d \in DOMAIN LEVEL_CONFIG
    THEN [difficulty |-> d, current_level_index |-> 0]
    ELSE [difficulty |-> DEFAULT_DIFFICULTY, current_level_index |-> 0]

\* a get_current_level_config that clamps an index below 0 to the first
\* level; C25 tells it apart
get_current_level_config_clamps_low(m) ==
    LET difficulty_levels == LEVEL_CONFIG[m.difficulty] IN
    IF m.current_level_index < 0
    THEN difficulty_levels[1]
    ELSE IF m.current_level_index < Len(difficulty_levels)
    THEN difficulty_levels[m.current_level_index + 1]
    ELSE difficulty_levels[Len(difficulty_levels)]

\* LevelManager.get_current_level_config
get_current_level_config(m) ==
    LET difficulty_levels == LEVEL_CONFIG[m.difficulty] IN
    IF 0 <= m.current_level_index /\ m.current_level_index < Len(difficulty_levels)
    THEN difficulty_levels[m.current_level_index + 1]
    ELSE difficulty_levels[Len(difficulty_levels)]

get_level_number(m) == get_current_level_config(m).level
get_target_score(m) == get_current_level_config(m).target_score
get_num_apples(m) == get_current_level_config(m).num_apples
get_num_obstacles(m) == get_current_level_config(m).num_obstacles
get_apple_spawn_delay(m) == get_current_level_config(m).apple_spawn_delay

\* LevelManager.is_level_complete asking for more than the target (C10 tells
\* it apart)
is_level_complete_above(m, sc) == sc > get_target_score(m)

\* LevelManager.is_level_complete
is_level_complete(m, sc) == sc >= get_target_score(m)

\* LevelManager.advance_level: the manager after the call and its result
advance_level_ret(m) ==
    m.current_level_index < Len(LEVEL_CONFIG[m.difficulty]) - 1

\* LevelManager.advance_level incrementing the index on the last level too
\* (C11 tells it apart)
advance_level_unbounded(m) ==
    [m EXCEPT !.current_level_index = m.current_level_index + 1]

advance_level(m) ==
    IF advance_level_ret(m)
    THEN [m EXCEPT !.current_level_index = m.current_level_index + 1]
    ELSE m

\* LevelManager.reset_progress
reset_progress(m) == [m EXCEPT !.current_level_index = 0]

\* LevelManager.is_game_complete looking one index past the last level (C12
\* tells it apart)
is_game_complete_past_last(m) ==
    m.current_level_index >= Len(LEVEL_CONFIG[m.difficulty])

\* LevelManager.is_game_complete
is_game_complete(m) ==
    m.current_level_index >= Len(LEVEL_CONFIG[m.difficulty]) - 1

----------------------------------------------------------------------------
(* game_objects.py: the random operations.  Each is the set of results the *)
(* random module can produce; a choice among cells is bounded to the cells *)
(* nearest to the snake's head.                                            *)

\* a total order on the cells of the grid: nearer to ref first, then in the
\* row-major order in which the source enumerates cells
CellKey(p, ref, cell_number) ==
    Manhattan(p, ref) * cell_number * cell_number + p[2] * cell_number + p[1]

\* the n cells of the set nearest to ref (looked for among the cells within
\* distance radius of ref first, which gives the same set when there are n)
NearestIn(cells, ref, n, cell_number) ==
    {p \in cells :
        Cardinality({q \in cells : CellKey(q, ref, cell_number)
                                      < CellKey(p, ref, cell_number)}) < n}

RECURSIVE NearestFrom(_, _, _, _, _)
NearestFrom(cells, ref, n, cell_number, radius) ==
    LET near == {p \in cells : Manhattan(p, ref) <= radius} IN
    IF Cardinality(near) >= n \/ radius >= 2 * cell_number
    THEN NearestIn(near, ref, n, cell_number)
    ELSE NearestFrom(cells, ref, n, cell_number, radius + 1)

Nearest(cells, ref, n, cell_number) == NearestFrom(cells, ref, n, cell_number, 1)

\* Fruit.randomize that does not count the cells of the other apples as
\* occupied (C13 tells it apart)
Fruit_randomize_over_apples(f, cell_number, snake_body, wall_positions, other_apple_pos, ticks) ==
    LET occupied_positions == SeqToSet(snake_body) \cup wall_positions
        possible_positions ==
            Fruit_possible_positions(cell_number, occupied_positions)
    IN  IF possible_positions = {}
        THEN {Fruit_randomize_fail(f)}
        ELSE {Fruit_randomize_at(f, pos, poison, ticks) :
                 pos \in Nearest(possible_positions, snake_body[1], ApplePool,
                                 cell_number),
                 poison \in BOOLEAN}

\* Fruit.randomize(snake_body, wall_positions, other_apple_pos)
Fruit_randomize(f, cell_number, snake_body, wall_positions, other_apple_pos, ticks) ==
    LET occupied_positions ==
            SeqToSet(snake_body) \cup wall_positions \cup other_apple_pos
        possible_positions ==
            Fruit_possible_positions(cell_number, occupied_positions)
    IN  IF possible_positions = {}
        THEN {Fruit_randomize_fail(f)}
        ELSE {Fruit_randomize_at(f, pos, poison, ticks) :
                 pos \in Nearest(possible_positions, snake_body[1], ApplePool,
                                 cell_number),
                 poison \in BOOLEAN}

forbidden_cols_initial_snake == 5
snake_head_margin == 3

\* the cells Wall.generate may use when it does not put the apples in its
\* safe zones (C15 tells it apart)
Wall_possible_positions_over_apples(cell_number, snake_body, fruit_positions) ==
    LET head == snake_body[1]
        safe_zones ==
            IF Len(snake_body) > 0
            THEN {<<head[1] + dx, head[2] + dy>> :
                     dx \in (0 - snake_head_margin)..snake_head_margin,
                     dy \in (0 - snake_head_margin)..snake_head_margin}
                 \cup SeqToSet(snake_body)
            ELSE {}
        snake_near_spawn ==
            \E i \in 1..Len(snake_body) :
                snake_body[i][1] < forbidden_cols_initial_snake
    IN  {p \in Fruit_possible_positions(cell_number, {}) :
            /\ ~(p[1] < forbidden_cols_initial_snake /\ snake_near_spawn)
            /\ p \notin safe_zones}

\* the cells Wall.generate may use when the margin around the head is one
\* cell narrower (C16 tells it apart)
Wall_possible_positions_narrow_margin(cell_number, snake_body, fruit_positions) ==
    LET head == snake_body[1]
        safe_zones ==
            fruit_positions
            \cup (IF Len(snake_body) > 0
                  THEN {<<head[1] + dx, head[2] + dy>> :
                           dx \in (1 - snake_head_margin)..(snake_head_margin - 1),
                           dy \in (1 - snake_head_margin)..(snake_head_margin - 1)}
                       \cup SeqToSet(snake_body)
                  ELSE {})
        snake_near_spawn ==
            \E i \in 1..Len(snake_body) :
                snake_body[i][1] < forbidden_cols_initial_snake
    IN  {p \in Fruit_possible_positions(cell_number, {}) :
            /\ ~(p[1] < forbidden_cols_initial_snake /\ snake_near_spawn)
            /\ p \notin safe_zones}

\* the cells Wall.generate may use
Wall_possible_positions(cell_number, snake_body, fruit_positions) ==
    LET head == snake_body[1]
        safe_zones ==
            fruit_positions
            \cup (IF Len(snake_body) > 0
                  THEN {<<head[1] + dx, head[2] + dy>> :
                           dx \in (0 - snake_head_margin)..snake_head_margin,
                           dy \in (0 - snake_head_margin)..snake_head_margin}
                       \cup SeqToSet(snake_body)
                  ELSE {})
        snake_near_spawn ==
            \E i \in 1..Len(snake_body) :
                snake_body[i][1] < forbidden_cols_initial_snake
    IN  {p \in Fruit_possible_positions(cell_number, {}) :
            /\ ~(p[1] < forbidden_cols_initial_snake /\ snake_near_spawn)
            /\ p \notin safe_zones}

\* Wall.generate(num_obstacles, snake_body, fruit_positions): the sets of
\* positions the shuffle can leave
Wall_generate(num_obstacles, cell_number, snake_body, fruit_positions) ==
    IF num_obstacles = 0
    THEN {{}}
    ELSE LET possible_positions ==
                 Wall_possible_positions(cell_number, snake_body, fruit_positions)
             count == Min(num_obstacles, Cardinality(possible_positions))
             pool == Nearest(possible_positions, snake_body[1],
                             count + WallSlack, cell_number)
         IN  {w \in SUBSET pool : Cardinality(w) = count}

\* Wall.check_collision
Wall_check_collision(positions, position) == position \in positions

----------------------------------------------------------------------------
(* game_controller.py: apple management.  ctx carries what the methods     *)
(* read from the controller: cell_number, settings, num_apples, the        *)
(* snake's body, the wall positions, and get_ticks().                      *)

ActiveIndices(aps) == {i \in 1..Len(aps) : aps[i].is_active}
ActivePositions(aps) == {aps[i].pos : i \in ActiveIndices(aps)}

\* GameController._add_new_apple
add_new_apple(aps, ctx) ==
    {IF r.is_active THEN Append(aps, r) ELSE aps :
        r \in Fruit_randomize(Fruit_new(ctx.settings), ctx.cell_number,
                              ctx.body, ctx.wall, ActivePositions(aps),
                              ctx.ticks)}

\* a _reactivate_apple that does not pass the cells of the other apples;
\* C14 tells it apart
reactivate_apple_over_apples(aps, i, ctx) ==
    {[aps EXCEPT ![i] = r] :
        r \in Fruit_randomize(aps[i], ctx.cell_number, ctx.body, ctx.wall,
                              {}, ctx.ticks)}

\* GameController._reactivate_apple
reactivate_apple(aps, i, ctx) ==
    {[aps EXCEPT ![i] = r] :
        r \in Fruit_randomize(aps[i], ctx.cell_number, ctx.body, ctx.wall,
                              {aps[j].pos : j \in ActiveIndices(aps) \ {i}},
                              ctx.ticks)}

\* GameController._spawn_initial_apples: k apples still to add
RECURSIVE spawn_initial_apples(_, _, _)
spawn_initial_apples(aps, k, ctx) ==
    IF k = 0
    THEN {aps}
    ELSE UNION {spawn_initial_apples(a, k - 1, ctx) : a \in add_new_apple(aps, ctx)}

\* GameController._ensure_apple_count: k iterations of its loop still to run,
\* current_apple_count as the loop counts it
RECURSIVE ensure_apple_count_loop(_, _, _, _)
ensure_apple_count_loop(aps, current_apple_count, k, ctx) ==
    IF k = 0 \/ current_apple_count >= ctx.num_apples
    THEN {aps}
    ELSE LET inactive == {i \in 1..Len(aps) : ~aps[i].is_active} IN
         IF inactive # {}
         THEN LET i == CHOOSE x \in inactive : \A y \in inactive : x <= y
              IN  UNION {ensure_apple_count_loop(a, current_apple_count + 1,
                                                 k - 1, ctx) :
                            a \in reactivate_apple(aps, i, ctx)}
         ELSE IF Len(aps) < ctx.num_apples
         THEN UNION {ensure_apple_count_loop(a, current_apple_count + 1,
                                             k - 1, ctx) :
                        a \in add_new_apple(aps, ctx)}
         ELSE ensure_apple_count_loop(aps, current_apple_count, k - 1, ctx)

\* an _ensure_apple_count that leaves the apples as they are; C30 tells it
\* apart
ensure_apple_count_leaves_slot_empty(aps, ctx) == {aps}

ensure_apple_count(aps, ctx) ==
    ensure_apple_count_loop(aps, Cardinality(ActiveIndices(aps)),
                            ctx.num_apples, ctx)

\* GameController._handle_apple_despawn that leaves the apple active where
\* it is (C4 tells it apart)
handle_apple_despawn_still_active(aps, i, ctx) ==
    ensure_apple_count(aps, ctx)

\* GameController._handle_apple_despawn
handle_apple_despawn(aps, i, ctx) ==
    ensure_apple_count([aps EXCEPT ![i].is_active = FALSE, ![i].pos = OffGrid],
                       ctx)

\* the PLAYING branch of GameController._update_current_state_logic: the loop
\* over self.apples from index i on
RECURSIVE update_apples(_, _, _, _)
update_apples(aps, i, current_time, ctx) ==
    IF i > Len(aps)
    THEN {aps}
    ELSE IF aps[i].is_active
    THEN LET updated == [aps EXCEPT ![i] =
                            Fruit_update_state(aps[i], current_time, ctx.ticks)]
         IN  IF updated[i].state = EXPIRED
             THEN UNION {update_apples(a, i + 1, current_time, ctx) :
                            a \in handle_apple_despawn(updated, i, ctx)}
             ELSE update_apples(updated, i + 1, current_time, ctx)
    ELSE update_apples(aps, i + 1, current_time, ctx)

\* the apple branch without the floor of the score at 0 (C8 tells it apart)
apple_collision_no_floor(s, sc, f) ==
    IF f.state = POISONOUS
    THEN [snake |-> Snake_shrink(s), score |-> sc - 1]
    ELSE [snake |-> Snake_grow(s), score |-> sc + 1]

\* the apple branch without the call of grow() (C9 tells it apart)
apple_collision_no_growth(s, sc, f) ==
    IF f.state = POISONOUS
    THEN [snake |-> Snake_shrink(s), score |-> Max(0, sc - 1)]
    ELSE [snake |-> s, score |-> sc + 1]

\* the apple branch of GameController._update_game_logic for the apple f the
\* head landed on: the snake and the score afterwards
apple_collision(s, sc, f) ==
    IF f.state = POISONOUS
    THEN [snake |-> Snake_shrink(s), score |-> Max(0, sc - 1)]
    ELSE [snake |-> Snake_grow(s), score |-> sc + 1]

\* the KEYDOWN branch of GameController._handle_playing_events: may key k
\* replace direction d
key_accepted(k, d) ==
    \/ k = UP /\ d[2] # 1
    \/ k = DOWN /\ d[2] # -1
    \/ k = LEFT /\ d[1] # 1
    \/ k = RIGHT /\ d[1] # -1

Ctx(st, m, body, wl, t) ==
    [cell_number |-> DIFFICULTY_SETTINGS[st].cell_number, settings |-> st,
     num_apples |-> get_num_apples(m), body |-> body, wall |-> wl, ticks |-> t]

\* GameController._reset_level_state: the snake, apples and wall afterwards
reset_level_state(sn, wl, st, m, t) ==
    LET s1 == Snake_reset(sn)
        cell_number == DIFFICULTY_SETTINGS[st].cell_number
    IN  UNION {
          {[snake |-> s1, apples |-> a, wall |-> w] :
              w \in Wall_generate(get_num_obstacles(m), cell_number, s1.body,
                                  ActivePositions(a))} :
          a \in spawn_initial_apples(<<>>, get_num_apples(m),
                                     Ctx(st, m, s1.body, wl, t))}

\* GameController._setup_game_instance: new snake, no apples, new wall, then
\* _reset_level_state
setup_game_instance(st, m, t) ==
    LET cell_number == DIFFICULTY_SETTINGS[st].cell_number
    IN  reset_level_state(Snake_new(<<cell_number \div 4, cell_number \div 2>>),
                          {}, st, m, t)

\* a full reset that does not restore the level index after set_difficulty
\* (C38 tells it apart)
full_game_reset_lm_index_lost(m, d, keep_current_level_index) ==
    set_difficulty(IF ~keep_current_level_index THEN reset_progress(m) ELSE m,
                   d)

\* the level manager after GameController._full_game_reset
full_game_reset_lm(m, d, keep_current_level_index) ==
    LET current_level_idx ==
            IF keep_current_level_index THEN m.current_level_index ELSE 0
        m1 == IF ~keep_current_level_index THEN reset_progress(m) ELSE m
        m2 == set_difficulty(m1, d)
    IN  IF keep_current_level_index
        THEN [m2 EXCEPT !.current_level_index = current_level_idx]
        ELSE m2

\* players.unlocked_easy / unlocked_moderate / unlocked_hard: DEFAULT 1
DefaultUnlocked == 1

\* PlayerDatabase.unlock_next_level without the test that the completed level
\* is the highest unlocked one (C37 tells it apart)
unlock_next_level_any_completed(db, d, completed_level_number) ==
    LET next_level_to_unlock == completed_level_number + 1
    IN  IF next_level_to_unlock <= Len(LEVEL_CONFIG[d])
        THEN [db EXCEPT !.unlocked[d] = next_level_to_unlock]
        ELSE db

\* PlayerDatabase.unlock_next_level
unlock_next_level(db, d, completed_level_number) ==
    LET current_unlocked == db.unlocked[d]
        next_level_to_unlock == completed_level_number + 1
    IN  IF completed_level_number = current_unlocked
           /\ next_level_to_unlock <= Len(LEVEL_CONFIG[d])
        THEN [db EXCEPT !.unlocked[d] = next_level_to_unlock]
        ELSE db

\* PlayerDatabase.update_player_score as called by _trigger_game_over and
\* _trigger_game_completed: of the columns kept here it writes difficulty
update_player_score(db, pid, d) ==
    IF pid # 0 THEN [db EXCEPT !.difficulty = d] ELSE db

welcome_duration == 2000
level_transition_duration == 1500

----------------------------------------------------------------------------
(* game_controller.py: the event loop.  One action per event handler; the  *)
(* frame update runs with current_time = get_ticks().                      *)

\* what obs records: the last operation, its argument and result (for a
\* tick: the snake's length and the score when it began, and what the head
\* met; for a level button: its level index; an arrow key after a resume
\* leaves the operation "resume"); when the apple last became poisonous; the ticks and pauses handled so far; the
\* apples eaten; the (score, difficulty, level) passed to
\* update_player_score by the last operation, <<>> when it made no such call
ObsInit == [op |-> "init", arg |-> Zero, ret |-> FALSE, poisoned_at |-> 0,
            ticks |-> 0, pauses |-> 0, goods |-> 0, poisons |-> 0,
            saved |-> <<>>]

Observe(op, arg, ret) ==
    [obs EXCEPT !.op = op, !.arg = arg, !.ret = ret, !.saved = <<>>]

\* the call of update_player_score in _trigger_game_over and
\* _trigger_game_completed, made for a known player with self.score,
\* self.difficulty and level_manager.get_level_number()
ScoreUpdateCall(o, pid, sc, d, level) ==
    IF pid # 0 THEN [o EXCEPT !.saved = <<sc, d, level>>] ELSE o

\* GameController._change_state to a state other than PLAYING
ChangeStateTo(new_state) ==
    /\ game_state' = new_state
    /\ state_transition_time' = now

\* the players row found in the database file when the program starts: a new
\* player (no difficulty stored, the default is used) or one who played
\* before
InitialRows ==
    {[difficulty |-> d, unlocked |-> u] :
        d \in {"None", "Easy", "Hard"},
        u \in {[x \in Difficulties |-> DefaultUnlocked]}}

\* the database file that cannot be opened: PlayerDatabase._execute catches
\* the sqlite3.Error of every operation and returns None, so no row is
\* written and every read finds nothing
FailingDatabase ==
    [difficulty |-> "Unavailable",
     unlocked |-> [x \in Difficulties |-> DefaultUnlocked]]

\* PlayerDatabase.add_player: the id of the row of that name, None (0) when
\* the SELECT returned no result
add_player(db) == IF db = FailingDatabase THEN 0 ELSE 1

\* GameController.__init__
Init ==
    /\ game_state = "NAME_INPUT"
    /\ difficulty = DEFAULT_DIFFICULTY
    /\ settings = DEFAULT_DIFFICULTY
    /\ lm = LevelManager_new
    /\ score = 0
    /\ now = 0
    /\ \E g \in setup_game_instance(DEFAULT_DIFFICULTY, LevelManager_new, 0) :
          /\ snake = g.snake
          /\ apples = g.apples
          /\ wall = g.wall
    /\ last_wall_change_time = 0
    /\ state_transition_time = 0
    /\ player_id = 0
    /\ player_db \in InitialRows \cup {FailingDatabase}
    /\ level_buttons = [difficulty |-> "None", unlocked |-> 0]
    /\ obs = ObsInit

\* pygame.time.get_ticks() advances.  Every timer of a session is set when
\* the session starts, so the clock is followed only where a timer runs; the
\* welcome screen is left by the first frame after its duration.
TimePasses ==
    /\ now < MaxSteps * TimeStep
    /\ game_state \in {"WELCOME", "PLAYING", "PAUSED", "LEVEL_TRANSITION"}
    /\ game_state = "WELCOME" => now - state_transition_time <= welcome_duration
    /\ now' = now + TimeStep
    /\ UNCHANGED <<game_state, difficulty, settings, lm, score, snake, apples,
                   wall, last_wall_change_time, state_transition_time,
                   player_id, player_db, level_buttons, obs>>

\* GameController._handle_name_confirmation: with an id from add_player the
\* stored difficulty is loaded and the welcome screen follows; without one
\* the input shows "Error. Try different name." and the state stays
NameConfirm ==
    /\ game_state = "NAME_INPUT"
    /\ LET new_id == add_player(player_db) IN
       /\ IF new_id # 0
          THEN /\ player_id' = new_id
               /\ difficulty' = IF player_db.difficulty # "None"
                                THEN player_db.difficulty
                                ELSE DEFAULT_DIFFICULTY
               /\ ChangeStateTo("WELCOME")
          ELSE UNCHANGED <<player_id, difficulty, game_state,
                           state_transition_time>>
       /\ obs' = Observe("name_confirm", Zero, new_id # 0)
    /\ UNCHANGED <<settings, lm, score, snake, apples, wall,
                   last_wall_change_time, now, player_db, level_buttons>>

\* GameController._update_current_state_logic(current_time), WELCOME branch
FrameUpdateWelcome ==
    /\ game_state = "WELCOME"
    /\ now - state_transition_time > welcome_duration
    /\ ChangeStateTo("MAIN_MENU")
    /\ UNCHANGED <<difficulty, settings, lm, score, snake, apples, wall,
                   last_wall_change_time, now, player_id, player_db,
                   level_buttons, obs>>

\* GameController._update_current_state_logic(current_time), PLAYING branch
FrameUpdatePlaying ==
    /\ game_state = "PLAYING"
    /\ \E a \in update_apples(apples, 1, now,
                              Ctx(settings, lm, snake.body, wall, now)) :
          /\ apples' = a
          /\ obs' = IF \E i \in ActiveIndices(apples) :
                          Fruit_update_state(apples[i], now, now).state = EXPIRED
                    THEN Observe("frame", Zero, EXPIRED)
                    ELSE obs
    /\ UNCHANGED <<game_state, difficulty, settings, lm, score, snake, wall,
                   last_wall_change_time, state_transition_time, now,
                   player_id, player_db, level_buttons>>

\* play_button: GameController._go_to_level_select
MainMenuPlay ==
    /\ game_state = "MAIN_MENU"
    /\ lm' = set_difficulty(lm, difficulty)
    /\ ChangeStateTo("LEVEL_SELECT")
    /\ UNCHANGED <<difficulty, settings, score, snake, apples, wall,
                   last_wall_change_time, now, player_id, player_db,
                   level_buttons, obs>>

\* level_select_back_button, paused_main_menu_button,
\* game_over_main_menu_button
BackToMainMenu ==
    /\ game_state \in {"LEVEL_SELECT", "PAUSED", "GAME_OVER"}
    /\ ChangeStateTo("MAIN_MENU")
    /\ UNCHANGED <<difficulty, settings, lm, score, snake, apples, wall,
                   last_wall_change_time, now, player_id, player_db,
                   level_buttons, obs>>

\* level buttons that all carry their action, locked or not (C36 tells it
\* apart)
drawn_level_buttons_all_active(buttons, db, d) ==
    [difficulty |-> d, unlocked |-> Len(LEVEL_CONFIG[d])]

\* the level buttons GameController._draw_level_select_state shows for
\* difficulty d: regenerated only when the difficulty changed
drawn_level_buttons(buttons, db, d) ==
    IF buttons.difficulty # d
    THEN [difficulty |-> d, unlocked |-> db.unlocked[d]]
    ELSE buttons

\* a session starts: _full_game_reset followed by _change_state(PLAYING)
StartSession(m) ==
    /\ lm' = m
    /\ settings' = difficulty'
    /\ score' = 0
    /\ \E g \in setup_game_instance(difficulty', m, now) :
          /\ snake' = [g.snake EXCEPT !.direction = RIGHT]
          /\ apples' = g.apples
          /\ wall' = g.wall
    /\ last_wall_change_time' = now
    /\ game_state' = "PLAYING"
    /\ state_transition_time' = now

\* a level button of the level select screen: GameController._start_level
LevelSelectStart ==
    /\ game_state = "LEVEL_SELECT"
    /\ player_id # 0
    /\ level_buttons' = drawn_level_buttons(level_buttons, player_db, difficulty)
    /\ \E level_index \in 0..(Len(LEVEL_CONFIG[difficulty]) - 1) :
          /\ LEVEL_CONFIG[difficulty][level_index + 1].level
                <= level_buttons'.unlocked
          /\ difficulty' = difficulty
          /\ StartSession(full_game_reset_lm(
                 [set_difficulty(lm, difficulty)
                     EXCEPT !.current_level_index = level_index],
                 difficulty, TRUE))
          /\ obs' = Observe("start", <<level_index, 0>>, FALSE)
    /\ UNCHANGED <<now, player_id, player_db>>

\* retry_button: GameController._retry_game
Retry ==
    /\ game_state = "GAME_OVER"
    /\ difficulty' = difficulty
    /\ StartSession(full_game_reset_lm(lm, difficulty, FALSE))
    /\ obs' = Observe("start", Zero, FALSE)
    /\ UNCHANGED <<now, player_id, player_db, level_buttons>>

\* an arrow key in PLAYING: GameController._handle_playing_events
KeyDown ==
    /\ game_state = "PLAYING"
    /\ \E k \in Directions :
          /\ key_accepted(k, snake.direction)
          /\ snake' = [snake EXCEPT !.direction = k]
          /\ obs' = Observe(IF obs.op = "resume" THEN "resume" ELSE "key",
                            Zero, FALSE)
    /\ UNCHANGED <<game_state, difficulty, settings, lm, score, apples, wall,
                   last_wall_change_time, state_transition_time, now,
                   player_id, player_db, level_buttons>>

\* ESC in PLAYING: GameController._handle_current_state_events
KeyEscape ==
    /\ game_state = "PLAYING"
    /\ obs.pauses < MaxPauses
    /\ ChangeStateTo("PAUSED")
    /\ obs' = [obs EXCEPT !.pauses = @ + 1]
    /\ UNCHANGED <<difficulty, settings, lm, score, snake, apples, wall,
                   last_wall_change_time, now, player_id, player_db,
                   level_buttons>>

\* resume_button: GameController._toggle_pause
Resume ==
    /\ game_state = "PAUSED"
    /\ game_state' = "PLAYING"
    /\ state_transition_time' = now
    /\ snake' = [snake EXCEPT !.direction = RIGHT]
    /\ last_wall_change_time' = now
    /\ obs' = Observe("resume", Zero, FALSE)
    /\ UNCHANGED <<difficulty, settings, lm, score, apples, wall, now,
                   player_id, player_db, level_buttons>>

\* an after_move that already changes the wall when exactly the interval has
\* passed; C17 tells it apart
after_move_at_interval(s1, aps, sc, wl, lwct, st, m, t) ==
    LET head == s1.body[1]
        hit == {i \in ActiveIndices(aps) : aps[i].pos = head}
        eaten ==
            IF hit = {}
            THEN {[snake |-> s1, apples |-> aps, score |-> sc, ate |-> "none"]}
            ELSE LET i == CHOOSE x \in hit : \A y \in hit : x <= y
                     r == apple_collision(s1, sc, aps[i])
                 IN  {[snake |-> r.snake, apples |-> a, score |-> r.score,
                       ate |-> aps[i].state] :
                         a \in handle_apple_despawn(
                                   aps, i, Ctx(st, m, r.snake.body, wl, t))}
        wall_change_interval ==
            1000 * DIFFICULTY_SETTINGS[st].obstacle_speed_factor_x10
    IN  UNION {
          IF t - lwct >= wall_change_interval
          THEN {[snake |-> e.snake, apples |-> e.apples, score |-> e.score,
                 ate |-> e.ate, wall |-> w, last_wall_change_time |-> t] :
                    w \in Wall_generate(get_num_obstacles(m),
                                        DIFFICULTY_SETTINGS[st].cell_number,
                                        e.snake.body, ActivePositions(e.apples))}
          ELSE {[snake |-> e.snake, apples |-> e.apples, score |-> e.score,
                 ate |-> e.ate, wall |-> wl, last_wall_change_time |-> lwct]} :
          e \in eaten}

\* what a tick without collision does after the move: the apple loop and the
\* dynamic wall change of GameController._update_game_logic
after_move(s1, aps, sc, wl, lwct, st, m, t) ==
    LET head == s1.body[1]
        hit == {i \in ActiveIndices(aps) : aps[i].pos = head}
        eaten ==
            IF hit = {}
            THEN {[snake |-> s1, apples |-> aps, score |-> sc, ate |-> "none"]}
            ELSE LET i == CHOOSE x \in hit : \A y \in hit : x <= y
                     r == apple_collision(s1, sc, aps[i])
                 IN  {[snake |-> r.snake, apples |-> a, score |-> r.score,
                       ate |-> aps[i].state] :
                         a \in handle_apple_despawn(
                                   aps, i, Ctx(st, m, r.snake.body, wl, t))}
        wall_change_interval ==
            1000 * DIFFICULTY_SETTINGS[st].obstacle_speed_factor_x10
    IN  UNION {
          IF t - lwct > wall_change_interval
          THEN {[snake |-> e.snake, apples |-> e.apples, score |-> e.score,
                 ate |-> e.ate, wall |-> w, last_wall_change_time |-> t] :
                    w \in Wall_generate(get_num_obstacles(m),
                                        DIFFICULTY_SETTINGS[st].cell_number,
                                        e.snake.body, ActivePositions(e.apples))}
          ELSE {[snake |-> e.snake, apples |-> e.apples, score |-> e.score,
                 ate |-> e.ate, wall |-> wl, last_wall_change_time |-> lwct]} :
          e \in eaten}

\* is the head of s on an obstacle, outside the grid or on the body
collision(s, wl, cell_number) ==
    \/ Wall_check_collision(wl, s.body[1])
    \/ Snake_check_bounds_collision(s, cell_number)
    \/ Snake_check_collision_with_self(s)

\* a tick that makes the dynamic wall change before it looks at the
\* collisions; C28 tells it apart
update_game_logic_wall_change_first ==
    /\ game_state = "PLAYING"
    /\ LET s1 == Snake_move(snake)
           wall_change_interval ==
               1000 * DIFFICULTY_SETTINGS[settings].obstacle_speed_factor_x10
       IN
       IF collision(s1, wall, DIFFICULTY_SETTINGS[settings].cell_number)
       THEN /\ snake' = s1
            /\ player_db' = update_player_score(player_db, player_id, difficulty)
            /\ ChangeStateTo("GAME_OVER")
            /\ obs' = ScoreUpdateCall(
                          [Observe("tick", <<Len(snake.body), score>>,
                                   "collision") EXCEPT !.ticks = @ + 1],
                          player_id, score, difficulty, get_level_number(lm))
            /\ IF now - last_wall_change_time > wall_change_interval
               THEN /\ wall' \in Wall_generate(
                                     get_num_obstacles(lm),
                                     DIFFICULTY_SETTINGS[settings].cell_number,
                                     snake.body, ActivePositions(apples))
                    /\ last_wall_change_time' = now
               ELSE UNCHANGED <<wall, last_wall_change_time>>
            /\ UNCHANGED <<score, apples>>
       ELSE \E r \in after_move(s1, apples, score, wall, last_wall_change_time,
                                settings, lm, now) :
               /\ snake' = r.snake
               /\ apples' = r.apples
               /\ score' = r.score
               /\ wall' = r.wall
               /\ last_wall_change_time' = r.last_wall_change_time
               /\ IF is_level_complete(lm, r.score)
                  THEN IF is_game_complete(lm)
                       THEN /\ player_db' = update_player_score(
                                                player_db, player_id, difficulty)
                            /\ ChangeStateTo("GAME_COMPLETED")
                       ELSE /\ ChangeStateTo("LEVEL_TRANSITION")
                            /\ UNCHANGED player_db
                  ELSE UNCHANGED <<game_state, state_transition_time, player_db>>
               /\ LET o == [Observe("tick", <<Len(snake.body), score>>, r.ate)
                                EXCEPT !.ticks = @ + 1]
                  IN  obs' = IF is_level_complete(lm, r.score)
                                /\ is_game_complete(lm)
                             THEN ScoreUpdateCall(o, player_id, r.score,
                                                  difficulty,
                                                  get_level_number(lm))
                             ELSE o
    /\ UNCHANGED <<difficulty, settings, lm, now, player_id, level_buttons>>

\* GameController._update_game_logic, called for a SCREEN_UPDATE event in
\* PLAYING
update_game_logic ==
    /\ game_state = "PLAYING"
    /\ LET s1 == Snake_move(snake) IN
       IF collision(s1, wall, DIFFICULTY_SETTINGS[settings].cell_number)
       THEN /\ snake' = s1
            /\ player_db' = update_player_score(player_db, player_id, difficulty)
            /\ ChangeStateTo("GAME_OVER")
            /\ obs' = ScoreUpdateCall(
                          [Observe("tick", <<Len(snake.body), score>>,
                                   "collision") EXCEPT !.ticks = @ + 1],
                          player_id, score, difficulty, get_level_number(lm))
            /\ UNCHANGED <<score, apples, wall, last_wall_change_time>>
       ELSE \E r \in after_move(s1, apples, score, wall, last_wall_change_time,
                                settings, lm, now) :
               /\ snake' = r.snake
               /\ apples' = r.apples
               /\ score' = r.score
               /\ wall' = r.wall
               /\ last_wall_change_time' = r.last_wall_change_time
               /\ IF is_level_complete(lm, r.score)
                  THEN IF is_game_complete(lm)
                       THEN /\ player_db' = update_player_score(
                                                player_db, player_id, difficulty)
                            /\ ChangeStateTo("GAME_COMPLETED")
                       ELSE /\ ChangeStateTo("LEVEL_TRANSITION")
                            /\ UNCHANGED player_db
                  ELSE UNCHANGED <<game_state, state_transition_time, player_db>>
               /\ LET o == [Observe("tick", <<Len(snake.body), score>>, r.ate)
                                EXCEPT !.ticks = @ + 1]
                  IN  obs' = IF is_level_complete(lm, r.score)
                                /\ is_game_complete(lm)
                             THEN ScoreUpdateCall(o, player_id, r.score,
                                                  difficulty,
                                                  get_level_number(lm))
                             ELSE o
    /\ UNCHANGED <<difficulty, settings, lm, now, player_id, level_buttons>>

\* the SCREEN_UPDATE event: GameController._handle_playing_events
Tick ==
    /\ obs.ticks < MaxTicks
    /\ update_game_logic

\* The lowest target score of a level is above MaxTicks, so no run followed
\* here completes a level; the level tracker and the level transition are
\* followed in SpecLevel.
Next ==
    \/ TimePasses
    \/ NameConfirm
    \/ FrameUpdateWelcome
    \/ FrameUpdatePlaying
    \/ MainMenuPlay
    \/ BackToMainMenu
    \/ LevelSelectStart
    \/ Retry
    \/ KeyDown
    \/ KeyEscape
    \/ Resume
    \/ Tick

Spec == Init /\ [][Next]_vars

----------------------------------------------------------------------------
(* State of the controller right after GameController.__init__, used by    *)
(* the specifications of single components for the parts they leave alone *)

ControllerIdle ==
    /\ game_state = "NAME_INPUT"
    /\ difficulty = DEFAULT_DIFFICULTY
    /\ settings = DEFAULT_DIFFICULTY
    /\ lm = LevelManager_new
    /\ score = 0
    /\ wall = {}
    /\ last_wall_change_time = 0
    /\ state_transition_time = 0
    /\ player_id = 0
    /\ player_db = [difficulty |-> "None",
                    unlocked |-> [d \in Difficulties |-> 1]]
    /\ level_buttons = [difficulty |-> "None", unlocked |-> 0]

controllerVars == <<game_state, difficulty, settings, lm, score, wall,
                    last_wall_change_time, state_transition_time, player_id,
                    player_db, level_buttons>>

----------------------------------------------------------------------------
(* Snake alone: reset, move, grow, shrink and change_direction applied in  *)
(* any order to snakes inside a small box                                  *)

InBox(p) == /\ p[1] \in (0 - 2)..SnakeBox
            /\ p[2] \in 0..SnakeBox

InitSnake ==
    /\ ControllerIdle
    /\ snake = Snake_new(<<1, 1>>)
    /\ apples = <<>>
    /\ now = 0
    /\ obs = ObsInit

SnakeReset ==
    /\ snake' = Snake_reset(snake)
    /\ obs' = Observe("reset", Zero, FALSE)
    /\ UNCHANGED <<controllerVars, apples, now>>

SnakeMove ==
    /\ snake.direction # Zero => InBox(VAdd(snake.body[1], snake.direction))
    /\ snake' = Snake_move(snake)
    /\ obs' = Observe("move", snake.direction, snake.new_block)
    /\ UNCHANGED <<controllerVars, apples, now>>

SnakeGrow ==
    /\ Len(snake.body) < MaxLen
    /\ snake' = Snake_grow(snake)
    /\ obs' = Observe("grow", Zero, FALSE)
    /\ UNCHANGED <<controllerVars, apples, now>>

SnakeShrink ==
    /\ snake' = Snake_shrink(snake)
    /\ obs' = Observe("shrink", Zero, Snake_shrink_ret(snake))
    /\ UNCHANGED <<controllerVars, apples, now>>

SnakeChangeDirection ==
    \E d \in Directions \cup {Zero} :
        /\ snake' = Snake_change_direction(snake, d)
        /\ obs' = Observe("change_direction", d, d = VNeg(snake.direction))
        /\ UNCHANGED <<controllerVars, apples, now>>

NextSnake ==
    \/ SnakeReset
    \/ SnakeMove
    \/ SnakeGrow
    \/ SnakeShrink
    \/ SnakeChangeDirection

SpecSnake == InitSnake /\ [][NextSnake]_vars

----------------------------------------------------------------------------
(* Fruit alone: one apple of each difficulty, placed by randomize, aged by *)
(* update_state at clock values around every threshold, and despawned     *)

\* elapsed times at which update_state is called on apple f: each threshold of
\* f and the millisecond before it
ElapsedSamples(f) ==
    {0, f.poison_time_to_live - 1, f.poison_time_to_live}
    \cup (IF f.expiry_enabled
          THEN {f.time_to_live - f.time_to_warn - 1,
                f.time_to_live - f.time_to_warn,
                f.time_to_live - 1, f.time_to_live}
          ELSE {})

InitFruit ==
    /\ ControllerIdle
    /\ snake = Snake_new(<<2, 0>>)
    /\ \E d \in Difficulties : apples = << Fruit_new(d) >>
    /\ now = 0
    /\ obs = ObsInit

\* Fruit.randomize on a one-cell grid with nothing occupied
FruitRandomize ==
    \E pos \in Fruit_possible_positions(1, {}), poison \in BOOLEAN :
        /\ ~apples[1].is_active
        /\ apples' = << Fruit_randomize_at(apples[1], pos, poison, now) >>
        /\ obs' = [Observe("randomize", pos, poison)
                      EXCEPT !.poisoned_at = IF poison THEN now ELSE @]
        /\ UNCHANGED <<controllerVars, snake, now>>

\* Fruit.update_state(current_time) at a later clock value
FruitUpdate ==
    \E e \in ElapsedSamples(apples[1]) :
        LET current_time == apples[1].spawn_time + e IN
        /\ current_time >= now
        /\ current_time <= MaxClock
        /\ now' = current_time
        /\ apples' = << Fruit_update_state(apples[1], current_time, current_time) >>
        /\ obs' = [Observe("update_state", current_time, FALSE)
                      EXCEPT !.poisoned_at =
                          IF apples[1].state # POISONOUS
                             /\ apples'[1].state = POISONOUS
                          THEN current_time ELSE @]
        /\ UNCHANGED <<controllerVars, snake>>

\* the first two statements of GameController._handle_apple_despawn
FruitDespawn ==
    /\ apples[1].is_active
    /\ apples' = << [apples[1] EXCEPT !.is_active = FALSE, !.pos = OffGrid] >>
    /\ obs' = Observe("despawn", Zero, FALSE)
    /\ UNCHANGED <<controllerVars, snake, now>>

NextFruit ==
    \/ FruitRandomize
    \/ FruitUpdate
    \/ FruitDespawn

SpecFruit == InitFruit /\ [][NextFruit]_vars

----------------------------------------------------------------------------
(* The level tracker as the controller drives it, with the board left out: *)
(* a tick is taken by what the head met, and the handlers keep only what   *)
(* they do to the score, the level manager, the players row and the game   *)
(* state.  Scores up to every target are reached here.                     *)

\* the level select screen (GameController._go_to_level_select) of a new
\* player, or of one who has unlocked every level
InitLevel ==
    /\ game_state = "LEVEL_SELECT"
    /\ \E d \in Difficulties :
          /\ difficulty = d
          /\ lm = set_difficulty(LevelManager_new, d)
    /\ settings = DEFAULT_DIFFICULTY
    /\ score = 0
    /\ snake = Snake_new(<<2, 0>>)
    /\ apples = <<>>
    /\ wall = {}
    /\ last_wall_change_time = 0
    /\ state_transition_time = 0
    /\ now = 0
    /\ player_id = 1
    /\ \E u \in {DefaultUnlocked, Len(LEVEL_CONFIG[DEFAULT_DIFFICULTY])} :
          player_db = [difficulty |-> "None",
                       unlocked |-> [x \in Difficulties |-> u]]
    /\ level_buttons = [difficulty |-> "None", unlocked |-> 0]
    /\ obs = ObsInit

\* a level button: GameController._start_level and _full_game_reset
LvStartLevel ==
    /\ game_state = "LEVEL_SELECT"
    /\ level_buttons' = drawn_level_buttons(level_buttons, player_db, difficulty)
    /\ \E level_index \in 0..(Len(LEVEL_CONFIG[difficulty]) - 1) :
          /\ LEVEL_CONFIG[difficulty][level_index + 1].level
                <= level_buttons'.unlocked
          /\ lm' = full_game_reset_lm(
                       [set_difficulty(lm, difficulty)
                           EXCEPT !.current_level_index = level_index],
                       difficulty, TRUE)
    /\ settings' = difficulty
    /\ score' = 0
    /\ game_state' = "PLAYING"
    /\ state_transition_time' = now
    /\ obs' = [Observe("start", Zero, FALSE) EXCEPT !.goods = 0, !.poisons = 0]
    /\ UNCHANGED <<difficulty, snake, apples, wall, last_wall_change_time, now,
                   player_id, player_db>>

\* a tick without collision whose head met an active apple in state st: the
\* apple branch and the level check of GameController._update_game_logic
LvApple ==
    /\ game_state = "PLAYING"
    /\ \E st \in {GOOD, WARNING, POISONOUS} :
          /\ st = POISONOUS => obs.poisons < MaxPoisonEvents
          /\ score' = apple_collision(snake, score, [state |-> st]).score
          /\ LET o == [Observe("apple", Zero, st)
                          EXCEPT !.goods = IF st # POISONOUS THEN @ + 1 ELSE @,
                                 !.poisons = IF st = POISONOUS THEN @ + 1
                                             ELSE @]
             IN  obs' = IF is_level_complete(lm, score') /\ is_game_complete(lm)
                        THEN ScoreUpdateCall(o, player_id, score', difficulty,
                                             get_level_number(lm))
                        ELSE o
    /\ IF is_level_complete(lm, score')
       THEN IF is_game_complete(lm)
            THEN /\ player_db' = update_player_score(player_db, player_id,
                                                     difficulty)
                 /\ ChangeStateTo("GAME_COMPLETED")
            ELSE /\ ChangeStateTo("LEVEL_TRANSITION")
                 /\ UNCHANGED player_db
       ELSE UNCHANGED <<game_state, state_transition_time, player_db>>
    /\ UNCHANGED <<difficulty, settings, lm, snake, apples, wall,
                   last_wall_change_time, now, player_id, level_buttons>>

\* a tick with a collision: GameController._trigger_game_over
LvCollision ==
    /\ game_state = "PLAYING"
    /\ player_db' = update_player_score(player_db, player_id, difficulty)
    /\ ChangeStateTo("GAME_OVER")
    /\ obs' = ScoreUpdateCall(Observe("collision", Zero, FALSE), player_id,
                               score, difficulty, get_level_number(lm))
    /\ UNCHANGED <<difficulty, settings, lm, score, snake, apples, wall,
                   last_wall_change_time, now, player_id, level_buttons>>

\* retry_button: GameController._retry_game
LvRetry ==
    /\ game_state = "GAME_OVER"
    /\ lm' = full_game_reset_lm(lm, difficulty, FALSE)
    /\ settings' = difficulty
    /\ score' = 0
    /\ game_state' = "PLAYING"
    /\ state_transition_time' = now
    /\ obs' = [Observe("start", Zero, FALSE) EXCEPT !.goods = 0, !.poisons = 0]
    /\ UNCHANGED <<difficulty, snake, apples, wall, last_wall_change_time, now,
                   player_id, player_db, level_buttons>>

\* a next level handler that starts the level with a score of 0; C23 tells
\* it apart
LvNextLevel_resets_score ==
    /\ game_state = "LEVEL_TRANSITION"
    /\ now - state_transition_time > level_transition_duration
    /\ LET completed_level_number == get_level_number(lm)
           unlocked == IF player_id # 0
                       THEN unlock_next_level(player_db, difficulty,
                                              completed_level_number)
                       ELSE player_db
       IN  IF advance_level_ret(lm)
           THEN /\ lm' = advance_level(lm)
                /\ player_db' = unlocked
                /\ game_state' = "PLAYING"
                /\ state_transition_time' = now
           ELSE /\ player_db' = update_player_score(unlocked, player_id,
                                                    difficulty)
                /\ ChangeStateTo("GAME_COMPLETED")
                /\ UNCHANGED lm
    /\ obs' = IF advance_level_ret(lm)
              THEN Observe("next_level", Zero, TRUE)
              ELSE ScoreUpdateCall(Observe("next_level", Zero, FALSE),
                                   player_id, score, difficulty,
                                   get_level_number(lm))
    /\ score' = 0
    /\ UNCHANGED <<difficulty, settings, snake, apples, wall,
                   last_wall_change_time, now, player_id, level_buttons>>

\* a next level handler that also makes the score update when it advances;
\* C26 tells it apart
LvNextLevel_saves_score ==
    /\ game_state = "LEVEL_TRANSITION"
    /\ now - state_transition_time > level_transition_duration
    /\ LET completed_level_number == get_level_number(lm)
           unlocked == IF player_id # 0
                       THEN unlock_next_level(player_db, difficulty,
                                              completed_level_number)
                       ELSE player_db
       IN  IF advance_level_ret(lm)
           THEN /\ lm' = advance_level(lm)
                /\ player_db' = update_player_score(unlocked, player_id,
                                                    difficulty)
                /\ game_state' = "PLAYING"
                /\ state_transition_time' = now
           ELSE /\ player_db' = update_player_score(unlocked, player_id,
                                                    difficulty)
                /\ ChangeStateTo("GAME_COMPLETED")
                /\ UNCHANGED lm
    /\ obs' = ScoreUpdateCall(
                  Observe("next_level", Zero, advance_level_ret(lm)),
                  player_id, score, difficulty, get_level_number(lm))
    /\ UNCHANGED <<difficulty, settings, score, snake, apples, wall,
                   last_wall_change_time, now, player_id, level_buttons>>

\* next_level_button: GameController._advance_to_next_level
LvNextLevel ==
    /\ game_state = "LEVEL_TRANSITION"
    /\ now - state_transition_time > level_transition_duration
    /\ LET completed_level_number == get_level_number(lm)
           unlocked == IF player_id # 0
                       THEN unlock_next_level(player_db, difficulty,
                                              completed_level_number)
                       ELSE player_db
       IN  IF advance_level_ret(lm)
           THEN /\ lm' = advance_level(lm)
                /\ player_db' = unlocked
                /\ game_state' = "PLAYING"
                /\ state_transition_time' = now
           ELSE /\ player_db' = update_player_score(unlocked, player_id,
                                                    difficulty)
                /\ ChangeStateTo("GAME_COMPLETED")
                /\ UNCHANGED lm
    /\ obs' = IF advance_level_ret(lm)
              THEN Observe("next_level", Zero, TRUE)
              ELSE ScoreUpdateCall(Observe("next_level", Zero, FALSE),
                                   player_id, score, difficulty,
                                   get_level_number(lm))
    /\ UNCHANGED <<difficulty, settings, score, snake, apples, wall,
                   last_wall_change_time, now, player_id, level_buttons>>

\* main_menu_return_button of the level transition screen
TransitionMainMenu ==
    /\ game_state = "LEVEL_TRANSITION"
    /\ now - state_transition_time > level_transition_duration
    /\ ChangeStateTo("MAIN_MENU")
    /\ UNCHANGED <<difficulty, settings, lm, score, snake, apples, wall,
                   last_wall_change_time, now, player_id, player_db,
                   level_buttons, obs>>

NextLevelTracker ==
    \/ TimePasses
    \/ LvStartLevel
    \/ LvApple
    \/ LvCollision
    \/ LvRetry
    \/ LvNextLevel
    \/ TransitionMainMenu
    \/ BackToMainMenu
    \/ MainMenuPlay

SpecLevel == InitLevel /\ [][NextLevelTracker]_vars

----------------------------------------------------------------------------
(* LevelManager alone: set_difficulty, advance_level, reset_progress and    *)
(* the controller's level start applied in any order, and the queries      *)
(* asked in each state reached                                              *)

\* a key that is not in LEVEL_CONFIG
UnknownDifficulty == "Extreme"

\* what obs.arg records of a call on the level manager: its input and the
\* manager before the call
MgrCall(input) == [input |-> input, before |-> lm]

mgrVars == <<game_state, settings, score, snake, apples, wall,
             last_wall_change_time, state_transition_time, now, player_id,
             player_db, level_buttons>>

InitManager ==
    /\ ControllerIdle
    /\ snake = Snake_new(<<2, 0>>)
    /\ apples = <<>>
    /\ now = 0
    /\ obs = ObsInit

MgrSetDifficulty ==
    \E d \in Difficulties \cup {UnknownDifficulty} :
        /\ lm' = set_difficulty(lm, d)
        /\ obs' = Observe("set_difficulty", MgrCall(d), FALSE)
        /\ UNCHANGED <<mgrVars, difficulty>>

MgrAdvanceLevel ==
    /\ lm' = advance_level(lm)
    /\ obs' = Observe("advance_level", MgrCall(Zero), advance_level_ret(lm))
    /\ UNCHANGED <<mgrVars, difficulty>>

MgrResetProgress ==
    /\ lm' = reset_progress(lm)
    /\ obs' = Observe("reset_progress", MgrCall(Zero), FALSE)
    /\ UNCHANGED <<mgrVars, difficulty>>

\* what GameController._start_level(level_index) does to the level manager,
\* for the difficulty d chosen for the level select screen
MgrStartLevel ==
    \E d \in Difficulties :
      \E level_index \in 0..(Len(LEVEL_CONFIG[d]) - 1) :
        /\ difficulty' = d
        /\ lm' = full_game_reset_lm(
                     [set_difficulty(lm, d)
                         EXCEPT !.current_level_index = level_index],
                     d, TRUE)
        /\ obs' = Observe("start_level", MgrCall(level_index), FALSE)
        /\ UNCHANGED mgrVars

\* LevelManager.is_game_complete()
MgrIsGameComplete ==
    /\ obs' = Observe("is_game_complete", MgrCall(Zero), is_game_complete(lm))
    /\ UNCHANGED <<mgrVars, difficulty, lm>>

NextManager ==
    \/ MgrSetDifficulty
    \/ MgrAdvanceLevel
    \/ MgrResetProgress
    \/ MgrStartLevel
    \/ MgrIsGameComplete

SpecManager == InitManager /\ [][NextManager]_vars

----------------------------------------------------------------------------
(* The lookups of the level manager alone, for every value of its public   *)
(* attribute current_level_index from below 0 to past the last level       *)

Lookups == {"get_level_number", "get_target_score", "get_num_apples",
            "get_num_obstacles", "get_apple_spawn_delay"}

InitLookup ==
    /\ ControllerIdle
    /\ snake = Snake_new(<<2, 0>>)
    /\ apples = <<>>
    /\ now = 0
    /\ obs = ObsInit

\* level_manager.current_level_index = i, as _full_game_reset assigns it
MgrAssignIndex ==
    \E d \in Difficulties :
      \E i \in (0 - IndexSlack)..(Len(LEVEL_CONFIG[d]) - 1 + IndexSlack) :
        /\ lm' = [set_difficulty(lm, d) EXCEPT !.current_level_index = i]
        /\ obs' = Observe("assign_index", MgrCall(i), FALSE)
        /\ UNCHANGED <<mgrVars, difficulty>>

MgrLookup ==
    \E f \in Lookups :
        /\ obs' = Observe(f, MgrCall(Zero),
                          CASE f = "get_level_number" -> get_level_number(lm)
                            [] f = "get_target_score" -> get_target_score(lm)
                            [] f = "get_num_apples" -> get_num_apples(lm)
                            [] f = "get_num_obstacles" -> get_num_obstacles(lm)
                            [] f = "get_apple_spawn_delay" ->
                                   get_apple_spawn_delay(lm))
        /\ UNCHANGED <<mgrVars, difficulty, lm>>

NextLookup ==
    \/ MgrAssignIndex
    \/ MgrLookup

SpecLookup == InitLookup /\ [][NextLookup]_vars

----------------------------------------------------------------------------
(* Fruit.randomize alone, on a grid small enough to be full: the snake,    *)
(* the obstacles and the cell of another apple are inputs, and the apple   *)
(* is placed some time after it was constructed                            *)

PlaceCells == Fruit_possible_positions(PlaceGrid, {})

\* snakes on the small grid: a head alone, or a head with one segment to its
\* left
PlaceBodies ==
    {<<h>> : h \in PlaceCells}
    \cup {<<h, VAdd(h, LEFT)>> : h \in {c \in PlaceCells : c[1] > 0}}

\* the positions of the other active apples: none or one
PlaceOthers == {{}} \cup {{c} : c \in PlaceCells}

\* obs.arg holds other_apple_pos
InitRandomize ==
    /\ game_state = "NAME_INPUT"
    /\ difficulty = DEFAULT_DIFFICULTY
    /\ settings = DEFAULT_DIFFICULTY
    /\ lm = LevelManager_new
    /\ score = 0
    /\ \E body \in PlaceBodies :
          snake = [Snake_new(body[1]) EXCEPT !.body = body]
    /\ apples = << Fruit_new(DEFAULT_DIFFICULTY) >>
    /\ wall \in SUBSET PlaceCells
    /\ last_wall_change_time = 0
    /\ state_transition_time = 0
    /\ now = TimeStep
    /\ player_id = 0
    /\ player_db = [difficulty |-> "None",
                    unlocked |-> [d \in Difficulties |-> DefaultUnlocked]]
    /\ level_buttons = [difficulty |-> "None", unlocked |-> 0]
    /\ \E others \in PlaceOthers : obs = [ObsInit EXCEPT !.arg = others]

\* Fruit.randomize(snake_body, wall_positions, other_apple_pos); obs.ret is
\* get_ticks() at the call
PlaceRandomize ==
    \E r \in Fruit_randomize(apples[1], PlaceGrid, snake.body, wall, obs.arg,
                             now) :
        /\ apples' = << r >>
        /\ obs' = Observe("randomize", obs.arg, now)
        /\ UNCHANGED <<controllerVars, snake, now>>

NextRandomize == PlaceRandomize

SpecRandomize == InitRandomize /\ [][NextRandomize]_vars

----------------------------------------------------------------------------
(* Wall.generate alone: the snake and the apple positions are inputs, the  *)
(* number of obstacles is that of any level                                *)

\* num_obstacles of the levels of LEVEL_CONFIG
ObstacleCounts ==
    {LEVEL_CONFIG[d][i].num_obstacles :
        d \in Difficulties, i \in 1..Len(LEVEL_CONFIG[DEFAULT_DIFFICULTY])}

\* cells where the active apples may be
WallFruitCells == {<<5, 0>>, <<6, 0>>, <<CellNumber - 1, CellNumber - 1>>}

\* a snake as reset() leaves it, with its head in the column of the start,
\* in the last of the first five columns or in the last column, and on the
\* first, the middle or the last row; obs.arg holds fruit_positions
InitWall ==
    /\ game_state = "NAME_INPUT"
    /\ difficulty = DEFAULT_DIFFICULTY
    /\ settings = DEFAULT_DIFFICULTY
    /\ lm = LevelManager_new
    /\ score = 0
    /\ \E x \in {2, 4, CellNumber - 1},
          y \in {0, CellNumber \div 2, CellNumber - 1} :
          snake = Snake_new(<<x, y>>)
    /\ apples = <<>>
    /\ wall = {}
    /\ last_wall_change_time = 0
    /\ state_transition_time = 0
    /\ now = 0
    /\ player_id = 0
    /\ player_db = [difficulty |-> "None",
                    unlocked |-> [d \in Difficulties |-> DefaultUnlocked]]
    /\ level_buttons = [difficulty |-> "None", unlocked |-> 0]
    /\ \E fruits \in SUBSET WallFruitCells :
          obs = [ObsInit EXCEPT !.arg = fruits]

\* Wall.generate(num_obstacles, snake_body, fruit_positions); obs.ret is
\* num_obstacles
WallGenerate ==
    \E num_obstacles \in ObstacleCounts :
      \E w \in Wall_generate(num_obstacles, CellNumber, snake.body, obs.arg) :
        /\ wall' = w
        /\ obs' = Observe("generate", obs.arg, num_obstacles)
        /\ UNCHANGED <<game_state, difficulty, settings, lm, score, snake,
                       apples, last_wall_change_time, state_transition_time,
                       now, player_id, player_db, level_buttons>>

NextWall == WallGenerate

SpecWall == InitWall /\ [][NextWall]_vars

----------------------------------------------------------------------------
(* The board of a level with obstacles, played for a few ticks without the *)
(* menus and the pause.  The clock is counted from the moment the run      *)
(* begins.                                                                 *)

\* players.unlocked_easy / unlocked_moderate / unlocked_hard of a player who
\* has completed level 1 of each difficulty
BoardUnlocked == [d \in Difficulties |-> DefaultUnlocked + 1]

\* next_level_button: GameController._advance_to_next_level
NextLevel ==
    /\ game_state = "LEVEL_TRANSITION"
    /\ now - state_transition_time > level_transition_duration
    /\ LET completed_level_number == get_level_number(lm)
           unlocked == IF player_id # 0
                       THEN unlock_next_level(player_db, difficulty,
                                              completed_level_number)
                       ELSE player_db
       IN
       /\ player_db' = IF advance_level_ret(lm)
                       THEN unlocked
                       ELSE update_player_score(unlocked, player_id, difficulty)
       /\ IF advance_level_ret(lm)
          THEN /\ lm' = advance_level(lm)
               /\ \E g \in reset_level_state(snake, wall, settings, lm', now) :
                     /\ snake' = [g.snake EXCEPT !.direction = RIGHT]
                     /\ apples' = g.apples
                     /\ wall' = g.wall
               /\ last_wall_change_time' = now
               /\ game_state' = "PLAYING"
               /\ state_transition_time' = now
          ELSE /\ ChangeStateTo("GAME_COMPLETED")
               /\ UNCHANGED <<lm, snake, apples, wall, last_wall_change_time>>
    /\ obs' = IF advance_level_ret(lm)
              THEN Observe("next_level", Zero, TRUE)
              ELSE ScoreUpdateCall(Observe("next_level", Zero, FALSE),
                                   player_id, score, difficulty,
                                   get_level_number(lm))
    /\ UNCHANGED <<difficulty, settings, score, now, player_id, level_buttons>>

\* the level select screen of that player, for the difficulty selected
BoardLevelSelect ==
    /\ game_state = "LEVEL_SELECT"
    /\ \E d \in Difficulties :
          /\ difficulty = d
          /\ lm = set_difficulty(LevelManager_new, d)
          /\ player_db = [difficulty |-> d, unlocked |-> BoardUnlocked]
    /\ settings = DEFAULT_DIFFICULTY
    /\ score = 0
    /\ \E g \in setup_game_instance(DEFAULT_DIFFICULTY, LevelManager_new, 0) :
          /\ snake = g.snake
          /\ apples = g.apples
          /\ wall = g.wall
    /\ last_wall_change_time = 0
    /\ state_transition_time = 0

\* the level transition screen of a new player whose snake ate an apple in
\* each of the first 5 ticks of level 1 of Easy, going right from the start
EasyLevelOneDone ==
    LET m == set_difficulty(LevelManager_new, "Easy")
        start == Snake_new(<<CellNumber \div 4, CellNumber \div 2>>)
        body == [i \in 1..7 |-> <<start.body[1][1] + 6 - i, start.body[1][2]>>]
        eaten == [Fruit_new("Easy") EXCEPT !.is_active = TRUE, !.pos = body[1]]
    IN  /\ game_state = "LEVEL_TRANSITION"
        /\ difficulty = "Easy"
        /\ lm = m
        /\ player_db = [difficulty |-> "None",
                        unlocked |-> [d \in Difficulties |-> DefaultUnlocked]]
        /\ settings = "Easy"
        /\ score = get_target_score(m)
        /\ snake = [start EXCEPT !.body = body, !.direction = RIGHT,
                                 !.new_block = TRUE]
        /\ apples \in handle_apple_despawn(<<eaten>>, 1,
                                           Ctx("Easy", m, body, {}, 0))
        /\ wall = {}
        /\ last_wall_change_time = 0
        /\ state_transition_time = 0 - TimeStep

\* level 3 of Hard as _start_level leaves it for a player who has unlocked
\* it, on the boards whose apples are good and whose obstacles are the
\* possible cells nearest to the head
HardLevelThreeStarted ==
    LET m == [set_difficulty(LevelManager_new, "Hard")
                 EXCEPT !.current_level_index = 2]
    IN  /\ game_state = "PLAYING"
        /\ difficulty = "Hard"
        /\ lm = m
        /\ player_db = [difficulty |-> "Hard",
                        unlocked |-> [d \in Difficulties |-> get_level_number(m)]]
        /\ settings = "Hard"
        /\ score = 0
        /\ \E g \in setup_game_instance("Hard", m, 0) :
              /\ g.wall = Nearest(Wall_possible_positions(
                                      CellNumber, g.snake.body,
                                      ActivePositions(g.apples)),
                                  g.snake.body[1], get_num_obstacles(m),
                                  CellNumber)
              /\ \A i \in 1..Len(g.apples) : g.apples[i].state = GOOD
              /\ snake = [g.snake EXCEPT !.direction = RIGHT]
              /\ apples = g.apples
              /\ wall = g.wall
        /\ last_wall_change_time = 0
        /\ state_transition_time = 0

\* The level in play was started at time 0 and no tick has been handled
\* since; the clock then reaches the wall change interval exactly.
InitBoard ==
    /\ BoardLevelSelect \/ EasyLevelOneDone \/ HardLevelThreeStarted
    /\ now = IF game_state = "PLAYING"
             THEN 1000 * DIFFICULTY_SETTINGS[settings].obstacle_speed_factor_x10
                  - TimeStep
             ELSE 0
    /\ player_id = 1
    /\ level_buttons = [difficulty |-> "None", unlocked |-> 0]
    /\ obs = ObsInit

BoardTick ==
    /\ obs.ticks < MaxBoardTicks
    /\ update_game_logic

NextBoard ==
    \/ LevelSelectStart
    \/ NextLevel
    \/ TimePasses
    \/ FrameUpdatePlaying
    \/ KeyDown
    \/ BoardTick

SpecBoard == InitBoard /\ [][NextBoard]_vars

----------------------------------------------------------------------------
(* A full board: the last level of Hard on a grid the snake has filled, so *)
(* that the apple it is about to eat has no free cell to be placed on      *)

\* the cells of the grid column by column, down the even columns and up the
\* odd ones
FullBoardPath(p) ==
    LET c == p \div CellNumber
        r == p % CellNumber
    IN  <<c, IF c % 2 = 0 THEN r ELSE CellNumber - 1 - r>>

\* the snake lies along that path over all columns but the last two and
\* three cells into the next; the three apples of the level lie on the next
\* cells of the path, placed at the time the run starts, and the obstacles,
\* generated at time 0, on the rest of the grid
FullBoardLen == (CellNumber - 2) * CellNumber + 3

FullBoardBody == [i \in 1..FullBoardLen |-> FullBoardPath(FullBoardLen - i)]

FullBoardWall ==
    {FullBoardPath(p) :
        p \in (FullBoardLen + 3)..(CellNumber * CellNumber - 1)}

InitFullBoard ==
    LET m == [set_difficulty(LevelManager_new, "Hard")
                 EXCEPT !.current_level_index = Len(LEVEL_CONFIG["Hard"]) - 1]
    IN  /\ game_state = "PLAYING"
        /\ difficulty = "Hard"
        /\ lm = m
        /\ settings = "Hard"
        /\ score = get_target_score(m) - 10
        /\ snake = [body |-> FullBoardBody,
                    initial_pos |-> <<CellNumber \div 4, CellNumber \div 2>>,
                    direction |-> <<FullBoardBody[1][1] - FullBoardBody[2][1],
                                    FullBoardBody[1][2] - FullBoardBody[2][2]>>,
                    new_block |-> TRUE]
        /\ \E poison \in [1..get_num_apples(m) -> BOOLEAN] :
              apples = [i \in 1..get_num_apples(m) |->
                           Fruit_randomize_at(Fruit_new("Hard"),
                                              FullBoardPath(FullBoardLen + i - 1),
                                              poison[i], TimeStep)]
        /\ wall = FullBoardWall
        /\ last_wall_change_time = 0
        /\ state_transition_time = 0
        /\ now = TimeStep
        /\ player_id = 1
        /\ player_db = [difficulty |-> "Hard",
                        unlocked |-> [d \in Difficulties |-> get_level_number(m)]]
        /\ level_buttons = [difficulty |-> "None", unlocked |-> 0]
        /\ obs = ObsInit

NextFullBoard ==
    \/ TimePasses
    \/ FrameUpdatePlaying
    \/ KeyDown
    \/ BoardTick

SpecFullBoard == InitFullBoard /\ [][NextFullBoard]_vars

----------------------------------------------------------------------------
(* Level 1 played to the edge of the grid: a new player starts level 1     *)
(* from the level select screen and plays it for more ticks, without the   *)
(* menus and the pause                                                      *)

InitEdge ==
    /\ game_state = "LEVEL_SELECT"
    /\ \E d \in Difficulties :
          /\ difficulty = d
          /\ lm = set_difficulty(LevelManager_new, d)
    /\ player_db \in {r \in InitialRows : r.difficulty = "None"}
    /\ settings = DEFAULT_DIFFICULTY
    /\ score = 0
    /\ \E g \in setup_game_instance(DEFAULT_DIFFICULTY, LevelManager_new, 0) :
          /\ snake = g.snake
          /\ apples = g.apples
          /\ wall = g.wall
    /\ last_wall_change_time = 0
    /\ state_transition_time = 0
    /\ now = 0
    /\ player_id = 1
    /\ level_buttons = [difficulty |-> "None", unlocked |-> 0]
    /\ obs = ObsInit

EdgeTick ==
    /\ obs.ticks < MaxEdgeTicks
    /\ update_game_logic

NextEdge ==
    \/ LevelSelectStart
    \/ TimePasses
    \/ FrameUpdatePlaying
    \/ KeyDown
    \/ EdgeTick

SpecEdge == InitEdge /\ [][NextEdge]_vars

----------------------------------------------------------------------------
(* Claims about Fruit.update_state (specification SpecFruit) *)

\* the apple before and after an update_state step, and the elapsed time the
\* call computed
UpdateStep == obs'.op = "update_state"
ElapsedAtCall == obs'.arg - apples[1].spawn_time

\* C1: update_state moves an active GOOD apple to WARNING exactly when
\* elapsed >= total_life - warning_time and expiry is enabled, and otherwise
\* leaves it GOOD; with total_life 15000 and warning_time 5000 the apple is
\* GOOD after an update at elapsed 9999 and WARNING after one at 10000; with
\* expiry disabled a GOOD apple stays GOOD.
C1_GoodToWarning ==
    [][(UpdateStep /\ apples[1].is_active /\ apples[1].state = GOOD) =>
          /\ apples'[1].state \in {GOOD, WARNING}
          /\ apples'[1].state = WARNING <=>
                (/\ apples[1].expiry_enabled
                 /\ ElapsedAtCall >= apples[1].time_to_live - apples[1].time_to_warn)
          /\ (apples[1].time_to_live = 15000 /\ apples[1].time_to_warn = 5000) =>
                /\ ElapsedAtCall = 9999 => apples'[1].state = GOOD
                /\ ElapsedAtCall = 10000 => apples'[1].state = WARNING
          /\ ~apples[1].expiry_enabled => apples'[1].state = GOOD]_vars

\* a Moderate apple that update_state has just turned WARNING at elapsed 10000
C1_Witness ==
    /\ obs.op = "update_state"
    /\ apples[1].is_active
    /\ apples[1].state = WARNING
    /\ apples[1].time_to_live = 15000
    /\ obs.arg - apples[1].spawn_time = 10000

\* C2: update_state on an active WARNING apple with elapsed >= total_life
\* makes it POISONOUS with spawn_time = current_time (elapsed-since-poison is
\* 0 at that tick), and from then on it expires only once poison_life has
\* passed since that transition.
C2_WarningToPoisonous ==
    [][(UpdateStep /\ apples[1].is_active) =>
          /\ (apples[1].state = WARNING
              /\ ElapsedAtCall >= apples[1].time_to_live) =>
                /\ apples'[1].state = POISONOUS
                /\ apples'[1].spawn_time = obs'.arg
                /\ obs'.arg - apples'[1].spawn_time = 0
          /\ (apples[1].state = WARNING
              /\ ElapsedAtCall < apples[1].time_to_live) =>
                apples'[1] = apples[1]
          /\ (apples[1].state = POISONOUS /\ apples'[1].state = EXPIRED) =>
                obs'.arg - obs.poisoned_at >= apples[1].poison_time_to_live]_vars

\* a WARNING apple that update_state has just turned POISONOUS, some time
\* after its original spawn
C2_Witness ==
    /\ obs.op = "update_state"
    /\ apples[1].is_active
    /\ apples[1].state = POISONOUS
    /\ obs.poisoned_at = obs.arg
    /\ apples[1].spawn_time = obs.arg
    /\ obs.arg >= apples[1].time_to_live

\* C3: an active POISONOUS apple, aged into poison or spawned poisonous,
\* becomes EXPIRED at the first update_state with
\* current_time - spawn_time >= poison_life and not before, whatever the
\* difficulty; spawn_time is the time it became poisonous.
C3_PoisonousToExpired ==
    [][(UpdateStep /\ apples[1].is_active /\ apples[1].state = POISONOUS) =>
          /\ apples[1].spawn_time = obs.poisoned_at
          /\ apples'[1].state \in {POISONOUS, EXPIRED}
          /\ apples'[1].state = EXPIRED <=>
                ElapsedAtCall >= apples[1].poison_time_to_live]_vars

\* an apple of a difficulty without apple expiry that was spawned poisonous
\* and has just expired
C3_Witness ==
    /\ obs.op = "update_state"
    /\ apples[1].state = EXPIRED
    /\ ~apples[1].expiry_enabled
    /\ obs.arg - apples[1].spawn_time >= apples[1].poison_time_to_live

\* an apple that aged into poison and has just expired
C3_WitnessAged ==
    /\ obs.op = "update_state"
    /\ apples[1].state = EXPIRED
    /\ apples[1].expiry_enabled
    /\ apples[1].spawn_time >= apples[1].time_to_live

----------------------------------------------------------------------------
(* Claims about Snake (specification SpecSnake) *)

\* C5: with a unit orthogonal direction move() keeps the length when no
\* growth is pending and adds exactly 1 (clearing the flag) when one is; the
\* new head is old head + direction and the other segments are the old body
\* in order.  With the zero direction move() changes nothing.
C5_MoveContract ==
    [][obs'.op = "move" =>
          IF snake.direction = Zero
          THEN snake' = snake
          ELSE /\ snake.direction \in Directions
               /\ Len(snake'.body) =
                     Len(snake.body) + (IF snake.new_block THEN 1 ELSE 0)
               /\ ~snake'.new_block
               /\ snake'.body[1] = VAdd(snake.body[1], snake.direction)
               /\ \A i \in 2..Len(snake'.body) :
                     snake'.body[i] = snake.body[i - 1]
               /\ snake'.direction = snake.direction]_vars

\* a move that applied a pending growth on a moving snake
C5_Witness ==
    /\ obs.op = "move"
    /\ obs.ret = TRUE
    /\ obs.arg \in Directions
    /\ Len(snake.body) = MaxLen

\* a move with the zero direction while a growth is pending
C5_WitnessZero ==
    /\ obs.op = "move"
    /\ obs.arg = Zero
    /\ snake.new_block

\* C6: change_direction(d) leaves direction unchanged when d is the exact
\* opposite of the current direction and the snake has more than one
\* segment; in every other case direction becomes d.  Nothing else changes.
C6_ChangeDirection ==
    [][obs'.op = "change_direction" =>
          /\ IF Len(snake.body) > 1 /\ obs'.arg = VNeg(snake.direction)
             THEN snake'.direction = snake.direction
             ELSE snake'.direction = obs'.arg
          /\ snake'.body = snake.body
          /\ snake'.new_block = snake.new_block]_vars

\* a rejected reversal of a snake with several segments
C6_Witness ==
    /\ obs.op = "change_direction"
    /\ Len(snake.body) > 1
    /\ snake.direction \in Directions
    /\ obs.arg = VNeg(snake.direction)

\* an accepted reversal of a snake that is only a head
C6_WitnessHead ==
    /\ obs.op = "change_direction"
    /\ Len(snake.body) = 1
    /\ snake.direction = obs.arg
    /\ obs.arg \in Directions
    /\ obs.ret = TRUE

----------------------------------------------------------------------------
(* Claims about the running game, checked under Spec *)

\* a step that handles a SCREEN_UPDATE tick
TickStep == obs'.ticks = obs.ticks + 1

\* a step within one run of a level
SameRun ==
    /\ game_state \in {"PLAYING", "PAUSED"}
    /\ game_state' \in {"PLAYING", "PAUSED"}

\* a frame update in PLAYING that changed an apple
FrameStep ==
    /\ game_state = "PLAYING"
    /\ game_state' = "PLAYING"
    /\ ~TickStep
    /\ apples' # apples

\* the cell the head is about to move to, and the body that move leaves
NextHead == VAdd(snake.body[1], snake.direction)

MovedBody ==
    IF snake.direction = Zero
    THEN snake.body
    ELSE <<NextHead>> \o (IF snake.new_block
                          THEN snake.body
                          ELSE Prefix(snake.body, Len(snake.body) - 1))

\* the active apples on that cell, and the one the apple loop takes
Met == {i \in 1..Len(apples) : apples[i].is_active /\ apples[i].pos = NextHead}

FirstMet == CHOOSE i \in Met : \A j \in Met : i <= j

\* a tick without collision in which the head lands on a poisonous apple, or
\* on one that is not poisonous
EatsPoison ==
    /\ TickStep
    /\ game_state' # "GAME_OVER"
    /\ Met # {}
    /\ apples[FirstMet].state = POISONOUS

EatsGood ==
    /\ TickStep
    /\ game_state' # "GAME_OVER"
    /\ Met # {}
    /\ apples[FirstMet].state \in {GOOD, WARNING}

\* apple i was reclaimed in this step: it is left inactive off the grid, or it
\* was placed again at this time, fresh, on a cell off the snake
Reclaimed(i) ==
    \/ /\ ~apples'[i].is_active
       /\ apples'[i].pos = OffGrid
    \/ /\ apples'[i].is_active
       /\ apples'[i].state \in {GOOD, POISONOUS}
       /\ apples'[i].spawn_time = now
       /\ apples'[i].pos \notin SeqToSet(snake'.body)

\* C4: an active apple that update_state leaves EXPIRED is reclaimed by the
\* same frame update (set inactive off the grid, then handed to the respawn,
\* which places it afresh when a cell is free), and in no reachable state is
\* an apple both active and EXPIRED.
C4_ExpiredReclaimed ==
    /\ [](\A i \in 1..Len(apples) :
             ~(apples[i].is_active /\ apples[i].state = EXPIRED))
    /\ [][FrameStep =>
            /\ Len(apples') = Len(apples)
            /\ \A i \in ActiveIndices(apples) :
                  Fruit_update_state(apples[i], now, now).state = EXPIRED
                      => Reclaimed(i)]_vars

\* a frame update has just reclaimed an expired apple and placed it again
C4_Witness ==
    /\ game_state = "PLAYING"
    /\ obs.op = "frame"
    /\ obs.ret = EXPIRED
    /\ now > 0
    /\ \E i \in ActiveIndices(apples) :
          /\ apples[i].spawn_time = now
          /\ apples[i].state \in {GOOD, POISONOUS}

\* C7: no arrow keys delivered between two ticks make the next move of a
\* snake longer than one segment step back onto its neck.
C7_NoReversalByKeys ==
    [][(TickStep /\ obs.op = "key" /\ Len(snake.body) > 1)
          => snake'.body[1] # snake.body[2]]_vars

\* C8: a tick without collision whose head lands on an active POISONOUS apple
\* leaves the score at max(0, score - 1) and the snake without its tail
\* segment, unless the moved snake has one segment, which it keeps; the score
\* is never negative.
C8_PoisonousApple ==
    /\ [](score >= 0)
    /\ [][EatsPoison =>
            /\ score' = (IF score >= 1 THEN score - 1 ELSE 0)
            /\ snake'.body = (IF Len(MovedBody) > 1
                              THEN Prefix(MovedBody, Len(MovedBody) - 1)
                              ELSE MovedBody)]_vars

\* a snake of one segment has just eaten a poisonous apple at score 0
C8_Witness ==
    /\ obs.op = "tick"
    /\ obs.ret = POISONOUS
    /\ obs.arg = <<1, 0>>
    /\ Len(snake.body) = 1
    /\ score = 0

\* a poisonous apple has just taken the score from 1 to 0 and the tail
C8_WitnessScored ==
    /\ obs.op = "tick"
    /\ obs.ret = POISONOUS
    /\ obs.arg[2] = 1
    /\ score = 0
    /\ Len(snake.body) = obs.arg[1]

\* C9: a tick without collision whose head lands on an active GOOD or WARNING
\* apple adds exactly 1 to the score and reclaims that apple; the eating tick
\* only moves the snake and sets the growth flag, the flag stays until the
\* next tick, and that tick's move makes the snake one segment longer.
C9_GoodApple ==
    [][/\ EatsGood =>
            /\ score' = score + 1
            /\ snake'.body = MovedBody
            /\ snake'.new_block
            /\ Reclaimed(FirstMet)
       /\ (SameRun /\ ~TickStep /\ snake.new_block) =>
            /\ snake'.new_block
            /\ snake'.body = snake.body
       /\ (TickStep /\ snake.new_block /\ ~EatsPoison) =>
            /\ Len(snake'.body) = Len(snake.body) + 1
            /\ snake'.body[Len(snake'.body)] = snake.body[Len(snake.body)]]_vars

\* a WARNING apple has just been eaten: one point more, the growth pending
C9_Witness ==
    /\ obs.op = "tick"
    /\ obs.ret = WARNING
    /\ score = obs.arg[2] + 1
    /\ snake.new_block
    /\ Len(snake.body) = obs.arg[1]

\* the tick after a GOOD apple was eaten has made the snake one longer
C9_WitnessGrown ==
    /\ obs.op = "tick"
    /\ obs.ret = "none"
    /\ score = 1
    /\ obs.arg[1] = 3
    /\ Len(snake.body) = 4
    /\ ~snake.new_block

----------------------------------------------------------------------------
(* Claims about the level tracker (specification SpecLevel) *)

\* C10: in Moderate at level 1, started with score 0, is_level_complete is
\* false for the scores 0..9 and true at 10; the level is left at score 10,
\* which without poisonous apples is after exactly 10 good ones;
\* advance_level() then returns true and the current config is level 2 with
\* target_score 20.
C10_ModerateLevelOne ==
    /\ []((lm.difficulty = "Moderate" /\ lm.current_level_index = 0) =>
             /\ is_level_complete(lm, score) <=> score >= 10
             /\ game_state = "PLAYING" =>
                   score \in 0..9 /\ ~is_level_complete(lm, score)
             /\ game_state = "LEVEL_TRANSITION" =>
                   /\ score = 10
                   /\ obs.poisons = 0 => obs.goods = 10)
    /\ [][(/\ game_state = "LEVEL_TRANSITION"
           /\ lm.difficulty = "Moderate"
           /\ lm.current_level_index = 0
           /\ obs'.op = "next_level") =>
             /\ obs'.ret = TRUE
             /\ get_level_number(lm') = 2
             /\ get_target_score(lm') = 20]_vars

\* Moderate level 1 was completed by 10 good apples and the next level button
\* has just advanced the tracker to level 2
C10_Witness ==
    /\ obs.op = "next_level"
    /\ obs.ret = TRUE
    /\ obs.goods = 10
    /\ obs.poisons = 0
    /\ score = 10
    /\ lm.difficulty = "Moderate"
    /\ get_level_number(lm) = 2
    /\ get_target_score(lm) = 20

----------------------------------------------------------------------------
(* Claims about the level manager (specification SpecManager) *)

LastIndex(d) == Len(LEVEL_CONFIG[d]) - 1

\* C11: advance_level() adds exactly 1 to the level index and returns true
\* when the index is below the last level of the current difficulty; on the
\* last level it returns false and leaves index and difficulty unchanged.
C11_AdvanceLevel ==
    [][obs'.op = "advance_level" =>
          IF lm.current_level_index < LastIndex(lm.difficulty)
          THEN /\ obs'.ret = TRUE
               /\ lm'.current_level_index = lm.current_level_index + 1
               /\ lm'.difficulty = lm.difficulty
          ELSE /\ obs'.ret = FALSE
               /\ lm' = lm]_vars

\* advance_level() was called on the last level of Hard and returned false
C11_Witness ==
    /\ obs.op = "advance_level"
    /\ obs.ret = FALSE
    /\ obs.arg.before = lm
    /\ lm.difficulty = "Hard"
    /\ lm.current_level_index = LastIndex("Hard")

\* advance_level() has taken Easy from level 4 to its last level
C11_WitnessAdvanced ==
    /\ obs.op = "advance_level"
    /\ obs.ret = TRUE
    /\ lm.difficulty = "Easy"
    /\ obs.arg.before.current_level_index = LastIndex("Easy") - 1
    /\ lm.current_level_index = LastIndex("Easy")

\* C12: for every difficulty and every index reached through set_difficulty,
\* advance_level, reset_progress and the controller's level start, the index
\* is one of the difficulty's levels and is_game_complete() is true exactly
\* when it is the last one, which is exactly when advance_level() would
\* return false.
C12_GameCompleteAtLast ==
    /\ lm.difficulty \in Difficulties
    /\ lm.current_level_index \in 0..LastIndex(lm.difficulty)
    /\ is_game_complete(lm) <=> lm.current_level_index = LastIndex(lm.difficulty)
    /\ is_game_complete(lm) <=> ~advance_level_ret(lm)
    /\ obs.op = "is_game_complete" => obs.ret = is_game_complete(lm)

\* is_game_complete() has answered true on the last level of a difficulty
C12_Witness ==
    /\ obs.op = "is_game_complete"
    /\ obs.ret = TRUE
    /\ lm.current_level_index = LastIndex(lm.difficulty)
    /\ ~advance_level_ret(lm)

\* is_game_complete() has answered false on the level before the last
C12_WitnessBefore ==
    /\ obs.op = "is_game_complete"
    /\ obs.ret = FALSE
    /\ lm.current_level_index = LastIndex(lm.difficulty) - 1
    /\ advance_level_ret(lm)

----------------------------------------------------------------------------
(* Claims about placement (specifications SpecRandomize and SpecWall) *)

Chebyshev(a, b) == Max(Abs(a[1] - b[1]), Abs(a[2] - b[2]))

InGrid(p, cell_number) ==
    /\ p[1] \in 0..(cell_number - 1)
    /\ p[2] \in 0..(cell_number - 1)

\* the cells passed to randomize in its three lists
PlaceOccupied == SeqToSet(snake.body) \cup wall \cup obs.arg

\* C13: randomize(snake_body, wall_positions, other_apple_pos) never places
\* the apple on a cell of the three lists: when a cell is free the apple is
\* active, inside the grid, off every listed cell, GOOD or POISONOUS, with
\* spawn_time the time of the call; when every grid cell is listed it is
\* left inactive at (-1,-1).
C13_RandomizeFreeCell ==
    obs.op = "randomize" =>
        IF PlaceCells \subseteq PlaceOccupied
        THEN /\ ~apples[1].is_active
             /\ apples[1].pos = OffGrid
        ELSE /\ apples[1].is_active
             /\ InGrid(apples[1].pos, PlaceGrid)
             /\ apples[1].pos \notin PlaceOccupied
             /\ apples[1].state \in {GOOD, POISONOUS}
             /\ apples[1].spawn_time = obs.ret

\* an apple constructed earlier has been placed on the only free cell of the
\* grid
C13_Witness ==
    /\ obs.op = "randomize"
    /\ apples[1].is_active
    /\ obs.ret > 0
    /\ apples[1].spawn_time = obs.ret
    /\ PlaceCells \ PlaceOccupied = {apples[1].pos}
    /\ obs.arg # {}
    /\ wall # {}

\* randomize was called with every cell of the grid occupied
C13_WitnessFull ==
    /\ obs.op = "randomize"
    /\ PlaceCells \subseteq PlaceOccupied
    /\ ~apples[1].is_active
    /\ apples[1].pos = OffGrid

\* the cells generate must keep clear of: the apples, the snake, the margin
\* of 3 cells around its head, and the first 5 columns while a segment of
\* the snake is in them
WallExcluded(p, body, fruits) ==
    \/ p \in fruits
    \/ p \in SeqToSet(body)
    \/ Chebyshev(p, body[1]) <= 3
    \/ p[1] < 5 /\ \E i \in 1..Len(body) : body[i][1] < 5

WallAvailable(body, fruits) ==
    {p \in Fruit_possible_positions(CellNumber, {}) :
        ~WallExcluded(p, body, fruits)}

\* C15: generate(count, snake_body, fruit_positions) leaves in-grid cells,
\* none in snake_body or fruit_positions, as many as min(count, number of
\* cells outside the exclusion set): all the available ones when count
\* exceeds them, none when count is 0.
C15_WallGenerate ==
    obs.op = "generate" =>
        LET available == WallAvailable(snake.body, obs.arg) IN
        /\ \A p \in wall : InGrid(p, CellNumber)
        /\ wall \cap (SeqToSet(snake.body) \cup obs.arg) = {}
        /\ wall \subseteq available
        /\ Cardinality(wall) = Min(obs.ret, Cardinality(available))
        /\ obs.ret > Cardinality(available) => wall = available
        /\ obs.ret = 0 => wall = {}

\* generate was asked for more obstacles than there were cells, with an apple
\* on one of the cells it could otherwise have used, and placed what fitted
C15_Witness ==
    /\ obs.op = "generate"
    /\ wall # {}
    /\ obs.arg \cap {<<5, 0>>, <<6, 0>>} # {}
    /\ Cardinality(wall) < obs.ret
    /\ wall = WallAvailable(snake.body, obs.arg)
    /\ Cardinality(WallAvailable(snake.body, {})) > Cardinality(wall)

\* generate placed exactly the number of obstacles asked for
C15_WitnessCount ==
    /\ obs.op = "generate"
    /\ obs.ret = 10
    /\ Cardinality(wall) = 10
    /\ Cardinality(WallAvailable(snake.body, obs.arg)) > 10

----------------------------------------------------------------------------
(* Claims about the board of a level (specification SpecBoard) *)

C16_HeadMargin ==
    [][((game_state # "PLAYING" /\ game_state' = "PLAYING")
        \/ (TickStep /\ last_wall_change_time' # last_wall_change_time))
       => \A w \in wall' :
             /\ Chebyshev(w, snake'.body[1]) > 3
             /\ Manhattan(w, snake'.body[1]) > 3]_vars

\* a tick during play has just regenerated the obstacles
C16_Witness ==
    /\ game_state = "PLAYING"
    /\ obs.op = "tick"
    /\ last_wall_change_time = now
    /\ now > 0
    /\ wall # {}
    /\ \E w \in wall : Chebyshev(w, snake.body[1]) = 4

\* a level has just started with obstacles
C16_WitnessStart ==
    /\ game_state = "PLAYING"
    /\ obs.op \in {"start", "next_level"}
    /\ wall # {}

\* the interval between two regenerations at the difficulty st, in ms
WallInterval(st) ==
    CASE st = "Easy" -> 12000
      [] st = "Moderate" -> 10000
      [] st = "Hard" -> 8000

\* a step that starts a level
LevelStartStep == game_state # "PLAYING" /\ game_state' = "PLAYING"

\* the obstacle sets Wall.generate can give for the board after this step
Regenerated ==
    Wall_generate(get_num_obstacles(lm'),
                  DIFFICULTY_SETTINGS[settings'].cell_number, snake'.body,
                  ActivePositions(apples'))

C17_WitnessAtInterval ==
    /\ game_state = "PLAYING"
    /\ obs.op = "tick"
    /\ obs.ret # "collision"
    /\ now - last_wall_change_time = WallInterval(settings)
    /\ wall # {}

----------------------------------------------------------------------------
(* Claims about the pause (specification Spec) *)

\* C18: the steps of a PLAYING -> PAUSED -> PLAYING round trip, the pause, the
\* time spent paused and the resume, leave the snake's body and direction, the
\* score, the level index, the apples and the obstacle set as they were.
C18_PauseRoundTrip ==
    [][((game_state = "PAUSED" \/ game_state' = "PAUSED")
           /\ game_state' \in {"PLAYING", "PAUSED"})
       => /\ snake'.body = snake.body
          /\ snake'.direction = snake.direction
          /\ score' = score
          /\ lm'.current_level_index = lm.current_level_index
          /\ apples' = apples
          /\ wall' = wall]_vars

----------------------------------------------------------------------------
(* Claims about the edge of the grid (specification SpecEdge) *)

\* C20: a tick whose move puts the head outside [0, cell_number) in x or y
\* finds check_bounds_collision() true and ends in GAME_OVER; whenever the
\* head is inside the grid check_bounds_collision() is false.
C20_BoundsCollision ==
    /\ [](InGrid(snake.body[1], DIFFICULTY_SETTINGS[settings].cell_number)
            => ~Snake_check_bounds_collision(
                    snake, DIFFICULTY_SETTINGS[settings].cell_number))
    /\ [][(TickStep
             /\ ~InGrid(snake'.body[1],
                        DIFFICULTY_SETTINGS[settings].cell_number))
           => /\ Snake_check_bounds_collision(
                     snake', DIFFICULTY_SETTINGS[settings].cell_number)
              /\ game_state' = "GAME_OVER"]_vars

\* a tick moved the head past the bottom edge and the game is over
C20_Witness ==
    /\ game_state = "GAME_OVER"
    /\ obs.op = "tick"
    /\ obs.ret = "collision"
    /\ snake.body[1][2] = DIFFICULTY_SETTINGS[settings].cell_number
    /\ snake.body[1][1] \in 0..(DIFFICULTY_SETTINGS[settings].cell_number - 1)

\* a tick moved the head onto the last row and the game goes on
C20_WitnessLastRow ==
    /\ game_state = "PLAYING"
    /\ obs.op = "tick"
    /\ snake.body[1][2] = DIFFICULTY_SETTINGS[settings].cell_number - 1

----------------------------------------------------------------------------
(* Claims about a failed placement (specification SpecFullBoard) *)

\* the cells of the grid that hold no segment, obstacle or active apple
FreeCells ==
    {c \in Fruit_possible_positions(
               DIFFICULTY_SETTINGS[settings].cell_number, {}) :
        /\ c \notin wall
        /\ c \notin ActivePositions(apples)
        /\ \A k \in 1..Len(snake.body) : snake.body[k] # c}

----------------------------------------------------------------------------
(* Claims about the snake's length and shape (specification SpecSnake) *)

\* C21: shrink() removes exactly the tail segment and returns true when the
\* snake is longer than 1, and returns false leaving the snake as it is when
\* the length is 1; so after any sequence of reset, move, grow, shrink and
\* change_direction the snake has at least one segment, and exactly 3 right
\* after reset.
C21_ShrinkKeepsHead ==
    /\ [](Len(snake.body) >= 1)
    /\ [](obs.op \in {"init", "reset"} => Len(snake.body) = 3)
    /\ [][obs'.op = "shrink" =>
            IF Len(snake.body) > 1
            THEN /\ Len(snake'.body) = Len(snake.body) - 1
                 /\ \A i \in 1..Len(snake'.body) : snake'.body[i] = snake.body[i]
                 /\ snake'.direction = snake.direction
                 /\ snake'.new_block = snake.new_block
                 /\ obs'.ret = TRUE
            ELSE /\ snake' = snake
                 /\ obs'.ret = FALSE]_vars

\* shrink() was called on a snake of one segment
C21_Witness ==
    /\ obs.op = "shrink"
    /\ obs.ret = FALSE
    /\ Len(snake.body) = 1

\* shrink() has removed the tail of a snake grown to MaxLen segments
C21_WitnessTail ==
    /\ obs.op = "shrink"
    /\ obs.ret = TRUE
    /\ Len(snake.body) = MaxLen - 1

\* C22: in every reachable state each pair of consecutive segments of the
\* snake is orthogonally adjacent (Manhattan distance exactly 1), whatever
\* directions the key handler and the state changes have set.
C22_SegmentsAdjacent ==
    \A i \in 1..(Len(snake.body) - 1) :
        Manhattan(snake.body[i], snake.body[i + 1]) = 1

\* a snake that has grown and turned during play
C22_Witness ==
    /\ game_state = "PLAYING"
    /\ obs.op = "tick"
    /\ Len(snake.body) > 3
    /\ snake.body[1][2] # snake.body[Len(snake.body)][2]

\* a snake that has lost a segment to a poisonous apple after a turn
C22_WitnessShrunk ==
    /\ game_state = "PLAYING"
    /\ obs.op = "tick"
    /\ obs.ret = POISONOUS
    /\ Len(snake.body) = 2
    /\ snake.body[1][2] # snake.body[2][2]

----------------------------------------------------------------------------
(* Claims about the score across levels (specification SpecLevel) *)

\* a step that starts a session: a level button or the retry button
SessionStartStep ==
    /\ game_state \in {"LEVEL_SELECT", "GAME_OVER"}
    /\ game_state' = "PLAYING"

\* C23: 'Next Level' keeps the score, which is at or above the target of the
\* level just completed, and the next level is complete when that same score
\* reaches its target; a level button and the retry button set the score to
\* 0, and apart from them only a tick changes the score.
C23_ScoreAcrossLevels ==
    [][/\ (game_state = "LEVEL_TRANSITION" /\ game_state' = "PLAYING") =>
            /\ score' = score
            /\ score >= get_target_score(lm)
            /\ lm'.current_level_index = lm.current_level_index + 1
       /\ SessionStartStep => score' = 0
       /\ score' # score => (SessionStartStep \/ obs'.op = "apple")
       /\ (game_state = "PLAYING" /\ obs'.op = "apple") =>
            (game_state' # "PLAYING" <=> score' >= get_target_score(lm))
      ]_vars

\* level 2 of Easy was entered with the 5 points of level 1 and is complete
\* after 5 more good apples
C23_Witness ==
    /\ game_state = "LEVEL_TRANSITION"
    /\ difficulty = "Easy"
    /\ lm.current_level_index = 1
    /\ obs.goods = get_target_score(lm)
    /\ obs.poisons = 0
    /\ score = get_target_score(lm)

\* 'Next Level' has just started a level with the score kept
C23_WitnessKept ==
    /\ game_state = "PLAYING"
    /\ obs.op = "next_level"
    /\ lm.current_level_index > 0
    /\ score > 0

----------------------------------------------------------------------------
(* Claims about the level manager's difficulty and lookups (specification  *)
(* SpecManager)                                                             *)

\* C24: set_difficulty(d) always leaves the level index at 0; the difficulty
\* becomes d when d is Easy, Moderate or Hard, and Moderate otherwise;
\* reset_progress() sets the index to 0 and leaves the difficulty unchanged.
C24_SetDifficulty ==
    [][/\ obs'.op = "set_difficulty" =>
            /\ lm'.current_level_index = 0
            /\ lm'.difficulty =
                   IF obs'.arg.input \in {"Easy", "Moderate", "Hard"}
                   THEN obs'.arg.input
                   ELSE "Moderate"
       /\ obs'.op = "reset_progress" =>
            /\ lm'.current_level_index = 0
            /\ lm'.difficulty = lm.difficulty]_vars

\* set_difficulty was called with an unknown difficulty on a later level of
\* Hard
C24_Witness ==
    /\ obs.op = "set_difficulty"
    /\ obs.arg.input = UnknownDifficulty
    /\ obs.arg.before.difficulty = "Hard"
    /\ obs.arg.before.current_level_index > 0
    /\ lm = [difficulty |-> "Moderate", current_level_index |-> 0]

\* set_difficulty was called with the difficulty already set, on a later
\* level
C24_WitnessSame ==
    /\ obs.op = "set_difficulty"
    /\ obs.arg.input = obs.arg.before.difficulty
    /\ obs.arg.before.current_level_index > 0
    /\ lm.current_level_index = 0

\* reset_progress was called on a later level of Easy
C24_WitnessReset ==
    /\ obs.op = "reset_progress"
    /\ obs.arg.before.difficulty = "Easy"
    /\ obs.arg.before.current_level_index > 0
    /\ lm = [difficulty |-> "Easy", current_level_index |-> 0]

----------------------------------------------------------------------------
(* Claims about lookups with an index out of range (specification          *)
(* SpecLookup)                                                              *)

\* the level a lookup answers for: the level of the index when it is one of
\* the difficulty's levels, the last level otherwise
AnsweredLevel ==
    LET levels == LEVEL_CONFIG[lm.difficulty]
    IN  IF lm.current_level_index \in 0..(Len(levels) - 1)
        THEN levels[lm.current_level_index + 1]
        ELSE levels[Len(levels)]

\* C25: every lookup answers, and when current_level_index is outside
\* [0, number of levels) the level number, target score, apple count,
\* obstacle count and spawn delay are those of the last level of the
\* difficulty.
C25_LookupClamped ==
    /\ obs.op = "get_level_number" => obs.ret = AnsweredLevel.level
    /\ obs.op = "get_target_score" => obs.ret = AnsweredLevel.target_score
    /\ obs.op = "get_num_apples" => obs.ret = AnsweredLevel.num_apples
    /\ obs.op = "get_num_obstacles" => obs.ret = AnsweredLevel.num_obstacles
    /\ obs.op = "get_apple_spawn_delay" =>
          obs.ret = AnsweredLevel.apple_spawn_delay

\* the target score was looked up with an index below 0
C25_Witness ==
    /\ obs.op = "get_target_score"
    /\ lm.difficulty = "Hard"
    /\ lm.current_level_index < 0
    /\ obs.ret = 70

\* the obstacle count was looked up with an index past the last level
C25_WitnessPast ==
    /\ obs.op = "get_num_obstacles"
    /\ lm.difficulty = "Easy"
    /\ lm.current_level_index > 4
    /\ obs.ret = 10

----------------------------------------------------------------------------
(* C26: when the score update of the persistence collaborator is invoked   *)

\* the step made a call of update_player_score
ScoreUpdateStep == obs.saved = <<>> /\ obs'.saved # <<>>

\* 'Next Level' took the player to the next level
LevelAdvanceStep == game_state = "LEVEL_TRANSITION" /\ game_state' = "PLAYING"

\* a tick ended the session with a collision
GameOverStep == game_state = "PLAYING" /\ game_state' = "GAME_OVER"

\* a tick or 'Next Level' ended the session with the last level cleared
GameCompletedStep ==
    /\ game_state \in {"PLAYING", "LEVEL_TRANSITION"}
    /\ game_state' = "GAME_COMPLETED"

\* the triple a call is due at the end of the step
CurrentTriple == <<score', difficulty', get_level_number(lm')>>

\* C26 as stated: the score update is invoked exactly at level-advance and
\* game-over boundaries, each time with the current (score, difficulty,
\* level), and at no other point of a session
C26_UpdateAtAdvanceAndGameOver ==
    [][/\ ScoreUpdateStep <=> (LevelAdvanceStep \/ GameOverStep)
       /\ ScoreUpdateStep => obs'.saved = CurrentTriple]_vars

\* C26, amended: the score update is invoked exactly where a session ends,
\* at the game-over boundary and where the last level of the difficulty is
\* cleared, each time with the current (score, difficulty, level), and at no
\* other point of a session; a level advance only unlocks the next level.
\* No call is pending while a level is played or a transition is shown, so
\* every call is a ScoreUpdateStep.
C26_UpdateAtSessionEnd ==
    /\ [](game_state \in {"PLAYING", "LEVEL_TRANSITION"} => obs.saved = <<>>)
    /\ [][/\ ScoreUpdateStep <=> (GameOverStep \/ GameCompletedStep)
          /\ ScoreUpdateStep => obs'.saved = CurrentTriple
          /\ LevelAdvanceStep =>
                /\ obs'.saved = <<>>
                /\ player_db' = unlock_next_level(player_db, difficulty,
                                                  get_level_number(lm))]_vars

\* a game over on a later level with points scored, the update made with the
\* three values
C26_Witness ==
    /\ game_state = "GAME_OVER"
    /\ score > 0
    /\ get_level_number(lm) > 1
    /\ obs.saved = <<score, difficulty, get_level_number(lm)>>

\* the last level of a difficulty cleared, the update made
C26_WitnessCompleted ==
    /\ game_state = "GAME_COMPLETED"
    /\ obs.saved = <<score, difficulty, Len(LEVEL_CONFIG[difficulty])>>

\* a level advance that unlocked a level and made no score update
C26_WitnessAdvance ==
    /\ game_state = "PLAYING"
    /\ obs.op = "next_level"
    /\ obs.saved = <<>>
    /\ player_db.unlocked[difficulty] = get_level_number(lm)
    /\ get_level_number(lm) > DefaultUnlocked

----------------------------------------------------------------------------
(* C27: a session whose database fails                                     *)

\* C27: a persistence failure never blocks gameplay.  Every path from
\* NAME_INPUT to PLAYING starts with the confirmation of the name, so with a
\* database whose every operation fails the confirmation still has to take
\* the session to the welcome screen, with the in-memory default difficulty
C27_FailureDoesNotBlock ==
    [][(game_state = "NAME_INPUT" /\ obs'.op = "name_confirm") =>
          /\ game_state' = "WELCOME"
          /\ (player_db = FailingDatabase => difficulty' = DEFAULT_DIFFICULTY)
      ]_vars

\* what the code does: a session whose database fails never leaves the name
\* input screen
FailingSessionStaysAtNameInput ==
    player_db = FailingDatabase => game_state = "NAME_INPUT" /\ player_id = 0

----------------------------------------------------------------------------
(* Level 3 of Hard played for MaxCrashTicks ticks with the arrow keys: long *)
(* enough for the head to reach an obstacle or the edge of the grid.  The   *)
(* frame updates are left out, so no apple expires; the obstacle change of  *)
(* the tick comes due as the clock advances.                                *)

InitCrash ==
    /\ HardLevelThreeStarted
    /\ now = 1000 * DIFFICULTY_SETTINGS[settings].obstacle_speed_factor_x10
             - TimeStep
    /\ player_id = 1
    /\ level_buttons = [difficulty |-> "None", unlocked |-> 0]
    /\ obs = ObsInit

CrashTick ==
    /\ obs.ticks < MaxCrashTicks
    /\ update_game_logic

NextCrash ==
    \/ TimePasses
    \/ KeyDown
    \/ CrashTick

SpecCrash == InitCrash /\ [][NextCrash]_vars

----------------------------------------------------------------------------
(* C28: a collision ends the tick before anything else is looked at        *)

\* the head is on an obstacle, outside the grid or on the body once the
\* snake has moved
HeadCollidesAfterMove ==
    collision(Snake_move(snake), wall, DIFFICULTY_SETTINGS[settings].cell_number)

\* C28: a tick whose move puts the head on an obstacle, outside the grid or
\* on another segment ends in GAME_OVER; it eats no apple (the snake is the
\* moved one, neither grown nor shrunk), changes neither the score nor the
\* apples nor the obstacles nor the time of the last obstacle change, and
\* does not complete a level.  A tick that completes a level had no
\* collision.
C28_CollisionFirst ==
    [][TickStep =>
          /\ HeadCollidesAfterMove =>
                /\ game_state' = "GAME_OVER"
                /\ snake' = Snake_move(snake)
                /\ score' = score
                /\ apples' = apples
                /\ wall' = wall
                /\ last_wall_change_time' = last_wall_change_time
                /\ obs'.ret = "collision"
          /\ game_state' \in {"LEVEL_TRANSITION", "GAME_COMPLETED"} =>
                ~HeadCollidesAfterMove
          /\ game_state' = "GAME_OVER" <=> HeadCollidesAfterMove]_vars

\* the tick that ended the game
CollisionTickDone ==
    /\ game_state = "GAME_OVER"
    /\ obs.op = "tick"
    /\ obs.ret = "collision"

\* a game ended on an obstacle in a tick in which the change of the
\* obstacles was due
C28_Witness ==
    /\ CollisionTickDone
    /\ snake.body[1] \in wall
    /\ now - last_wall_change_time >
          1000 * DIFFICULTY_SETTINGS[settings].obstacle_speed_factor_x10

\* a game ended by the head on the body, apples active
C28_WitnessSelf ==
    /\ CollisionTickDone
    /\ Snake_check_collision_with_self(snake)
    /\ ActiveIndices(apples) # {}

\* a game ended outside the grid
C28_WitnessBounds ==
    /\ CollisionTickDone
    /\ Snake_check_bounds_collision(snake,
                                    DIFFICULTY_SETTINGS[settings].cell_number)

----------------------------------------------------------------------------
(* C29: where the snake lies while a level is played                       *)

\* every segment is inside the grid, no two segments share a cell and none
\* is on an obstacle
SnakeWellPlaced ==
    /\ \A i \in 1..Len(snake.body) :
          /\ InGrid(snake.body[i], DIFFICULTY_SETTINGS[settings].cell_number)
          /\ snake.body[i] \notin wall
    /\ \A i, j \in 1..Len(snake.body) : i # j => snake.body[i] # snake.body[j]

C29_WitnessShrunk ==
    /\ game_state = "PLAYING"
    /\ obs.op = "tick"
    /\ obs.ret = POISONOUS
    /\ Len(snake.body) < 3
    /\ wall # {}

\* a level with obstacles entered from the level transition screen
C29_WitnessReset ==
    /\ game_state = "PLAYING"
    /\ obs.op = "next_level"
    /\ wall # {}

----------------------------------------------------------------------------
(* C30: the number of active apples while a level is played                *)

ActiveCount(aps) == Cardinality(ActiveIndices(aps))

\* the apples whose cell or active flag the step changed
Replaced ==
    {i \in 1..Len(apples') :
        \/ i > Len(apples)
        \/ apples'[i].pos # apples[i].pos
        \/ apples'[i].is_active # apples[i].is_active}

\* a tick in which the apple eaten could not be placed: once the snake has
\* moved, every cell holds a segment, an obstacle or an apple
TickFoundNoCell ==
    /\ TickStep
    /\ \A c \in Fruit_possible_positions(
                    DIFFICULTY_SETTINGS[settings].cell_number, {}) :
          \/ c \in wall
          \/ c \in ActivePositions(apples)
          \/ \E k \in 1..Len(snake'.body) : snake'.body[k] = c

C30_WitnessExpired ==
    /\ game_state = "PLAYING"
    /\ obs.op = "frame"
    /\ ActiveCount(apples) = get_num_apples(lm)
    /\ \E i \in ActiveIndices(apples) : apples[i].spawn_time = now

\* a level started from the transition screen with the apples of level 2
C30_WitnessLevelStart ==
    /\ game_state = "PLAYING"
    /\ obs.op = "next_level"
    /\ Len(apples) = get_num_apples(lm)
    /\ ActiveCount(apples) = get_num_apples(lm)

----------------------------------------------------------------------------
(* The events of the main loop in every state of a session.  The runs start *)
(* one apple short of the target score, on level 1 of Easy (the level       *)
(* transition follows) and on its last level (the game is completed), with  *)
(* the snake of 7 segments that score implies and the apple ahead of it.    *)

LastAppleBoard(level_index) ==
    LET m == [set_difficulty(LevelManager_new, "Easy")
                 EXCEPT !.current_level_index = level_index]
        row == CellNumber \div 2
        body == [k \in 1..7 |-> <<7 - k, row>>]
        ahead == Fruit_randomize_at(Fruit_new("Easy"), <<7, row>>, FALSE, 0)
    IN  /\ game_state = "PLAYING"
        /\ difficulty = "Easy"
        /\ settings = "Easy"
        /\ lm = m
        /\ score = get_target_score(m) - 1
        /\ snake = [body |-> body, direction |-> RIGHT, new_block |-> FALSE,
                    initial_pos |-> <<CellNumber \div 4, row>>]
        /\ apples \in ensure_apple_count(<<ahead>>, Ctx("Easy", m, body, {}, 0))
        /\ wall \in Wall_generate(get_num_obstacles(m), CellNumber, body,
                                  ActivePositions(apples))
        /\ player_db = [difficulty |-> "Easy",
                        unlocked |-> [d \in Difficulties |-> get_level_number(m)]]

InitEvents ==
    /\ \E level_index \in {0, Len(LEVEL_CONFIG["Easy"]) - 1} :
          LastAppleBoard(level_index)
    /\ last_wall_change_time = 0
    /\ state_transition_time = 0
    /\ now = 0
    /\ player_id = 1
    /\ level_buttons = [difficulty |-> "None", unlocked |-> 0]
    /\ obs = ObsInit

\* a SCREEN_UPDATE event, an arrow key or a frame update in a state other
\* than PLAYING: the branch of _handle_current_state_events for that state
\* passes the event to its buttons, which act on a mouse click only, and
\* _update_current_state_logic has nothing to do there (the welcome screen
\* apart, see FrameUpdateWelcome)
\* a main loop that passes the events to the handler of PLAYING in PAUSED
\* too; C34 tells it apart
EventElsewhere_plays_while_paused ==
    \/ /\ game_state = "PAUSED"
       /\ \E r \in after_move(Snake_move(snake), apples, score, wall,
                               last_wall_change_time, settings, lm, now) :
             /\ snake' = r.snake
             /\ apples' = r.apples
             /\ score' = r.score
             /\ wall' = r.wall
             /\ last_wall_change_time' = r.last_wall_change_time
       /\ obs' = Observe("elsewhere", Zero, "SCREEN_UPDATE")
       /\ UNCHANGED <<game_state, difficulty, settings, lm,
                      state_transition_time, now, player_id, player_db,
                      level_buttons>>
    \/ /\ game_state \notin {"PLAYING", "PAUSED"}
       /\ \E e \in {"SCREEN_UPDATE", "KEYDOWN", "frame"} :
             obs' = Observe("elsewhere", Zero, e)
       /\ UNCHANGED <<game_state, difficulty, settings, lm, score, snake,
                      apples, wall, last_wall_change_time,
                      state_transition_time, now, player_id, player_db,
                      level_buttons>>

EventElsewhere ==
    /\ game_state # "PLAYING"
    /\ \E e \in {"SCREEN_UPDATE", "KEYDOWN", "frame"} :
          obs' = Observe("elsewhere", Zero, e)
    /\ UNCHANGED <<game_state, difficulty, settings, lm, score, snake, apples,
                   wall, last_wall_change_time, state_transition_time, now,
                   player_id, player_db, level_buttons>>

NextEvents ==
    \/ TimePasses
    \/ FrameUpdatePlaying
    \/ KeyDown
    \/ KeyEscape
    \/ Resume
    \/ BackToMainMenu
    \/ TransitionMainMenu
    \/ NextLevel
    \/ BoardTick
    \/ EventElsewhere

SpecEvents == InitEvents /\ [][NextEvents]_vars

----------------------------------------------------------------------------
(* C31: the delay between the loss of an apple and its replacement         *)

\* C31: after an apple is eaten or expires, its replacement does not become
\* active until at least the level's apple_spawn_delay milliseconds have
\* elapsed since the despawn: the apple a tick or a frame update of time now
\* has taken away is inactive after the step, or carries a spawn time of at
\* least now plus the delay
C31_SpawnDelay ==
    [][(game_state = "PLAYING" /\ game_state' = "PLAYING") =>
          \A i \in 1..Len(apples) :
             (/\ apples[i].is_active
              /\ \/ TickStep /\ apples[i].pos = snake'.body[1]
                 \/ ~TickStep /\ apples' # apples
                    /\ Fruit_update_state(apples[i], now, now).state = EXPIRED)
             => \/ ~apples'[i].is_active
                \/ apples'[i].spawn_time - now >= get_apple_spawn_delay(lm)
      ]_vars

----------------------------------------------------------------------------
(* C32: the way back to the main menu                                      *)

\* a handler of the session takes the game to MAIN_MENU
MainMenuStep == NextLevelTracker /\ game_state' = "MAIN_MENU"

\* C32: no end-of-session state is a dead end: in GAME_OVER, in PAUSED, in
\* LEVEL_TRANSITION once its input lock has run out and in GAME_COMPLETED a
\* user input event takes the game to MAIN_MENU
C32_NoDeadEnd ==
    (\/ game_state \in {"GAME_OVER", "PAUSED", "GAME_COMPLETED"}
     \/ /\ game_state = "LEVEL_TRANSITION"
        /\ now - state_transition_time > level_transition_duration)
    => ENABLED MainMenuStep

\* what the code does: of the events handled in GAME_OVER and after the lock
\* in LEVEL_TRANSITION one leads to MAIN_MENU, and no event is handled in
\* GAME_COMPLETED
GameCompletedIsFinal ==
    /\ (\/ game_state = "GAME_OVER"
        \/ /\ game_state = "LEVEL_TRANSITION"
           /\ now - state_transition_time > level_transition_duration)
       => ENABLED MainMenuStep
    /\ game_state = "GAME_COMPLETED" =>
          ~ENABLED (NextLevelTracker /\ game_state' # "GAME_COMPLETED")

----------------------------------------------------------------------------
(* C33: the apples' timers across a pause                                  *)

\* has the apple f a lifecycle transition ahead
HasNextTransition(f) ==
    f.is_active /\ (f.state = POISONOUS \/ (f.expiry_enabled
                                             /\ f.state \in {GOOD, WARNING}))

\* the time left at clock value t until update_state moves f to its next
\* state
TimeToNextTransition(f, t) ==
    (CASE f.state = POISONOUS -> f.poison_time_to_live
       [] f.state = WARNING -> f.time_to_live
       [] OTHER -> f.time_to_live - f.time_to_warn)
    - (t - f.spawn_time)

\* C33: time spent in PAUSED does not age apples: over every step of a pause,
\* the time that passes while paused and the resume, each active apple keeps
\* the time left until its next lifecycle transition
C33_PauseDoesNotAge ==
    [][(game_state = "PAUSED" /\ game_state' \in {"PAUSED", "PLAYING"}) =>
          \A i \in 1..Len(apples) :
             HasNextTransition(apples[i]) =>
                TimeToNextTransition(apples'[i], now')
                   = TimeToNextTransition(apples[i], now)]_vars

----------------------------------------------------------------------------
(* C34: the simulation advances in PLAYING only                            *)

\* the step left the snake, the score, the apples, the obstacles and the
\* level index as they were
SimulationUnchanged ==
    /\ snake' = snake
    /\ score' = score
    /\ apples' = apples
    /\ wall' = wall
    /\ lm'.current_level_index = lm.current_level_index

\* C34: the simulation advances only in PLAYING: a tick, an arrow key or a
\* frame update delivered in any other state leaves the snake, the score,
\* the apples, the obstacles and the level index unchanged, and so does
\* every step taken in another state but the resume and the start of a
\* level; in particular a tick that follows the tick that switched the state
\* to GAME_OVER, LEVEL_TRANSITION or GAME_COMPLETED has no effect
C34_OnlyInPlaying ==
    /\ [][(game_state # "PLAYING" /\ obs'.op = "elsewhere" /\ obs' # obs)
            => SimulationUnchanged /\ game_state' = game_state]_vars
    /\ [][(game_state # "PLAYING"
            /\ ~(game_state \in {"PAUSED", "LEVEL_TRANSITION"}
                 /\ game_state' = "PLAYING"))
            => SimulationUnchanged]_vars
    /\ [][TickStep => game_state = "PLAYING"]_vars

\* a tick delivered after the tick that ended the game with a collision
C34_Witness ==
    /\ game_state = "GAME_OVER"
    /\ obs.op = "elsewhere"
    /\ obs.ret = "SCREEN_UPDATE"
    /\ obs.ticks > 0
    /\ collision(snake, wall, DIFFICULTY_SETTINGS[settings].cell_number)

\* a tick delivered after the tick that completed level 1
C34_WitnessTransition ==
    /\ game_state = "LEVEL_TRANSITION"
    /\ obs.op = "elsewhere"
    /\ obs.ret = "SCREEN_UPDATE"
    /\ score = get_target_score(lm)

\* a tick delivered after the tick that completed the last level
C34_WitnessCompleted ==
    /\ game_state = "GAME_COMPLETED"
    /\ obs.op = "elsewhere"
    /\ obs.ret = "SCREEN_UPDATE"
    /\ is_game_complete(lm)

\* an arrow key and a frame update delivered while the game is paused
C34_WitnessPaused ==
    /\ game_state = "PAUSED"
    /\ obs.op = "elsewhere"
    /\ obs.ret \in {"KEYDOWN", "frame"}

----------------------------------------------------------------------------
(* C35 *)

\* the place of an apple state in the lifecycle
LifecycleRank(state) ==
    CASE state = GOOD -> 0
      [] state = WARNING -> 1
      [] state = POISONOUS -> 2
      [] state = EXPIRED -> 3

\* C35: one update_state call moves an apple at most one state along
\* GOOD -> WARNING -> POISONOUS -> EXPIRED, and only randomize moves it back:
\* a GOOD apple updated past its total life becomes WARNING, never POISONOUS,
\* in that call, and the call that turns an apple POISONOUS does not expire it
C35_OneTransitionPerCall ==
    /\ [][obs'.op = "update_state"
            => LifecycleRank(apples'[1].state)
                   - LifecycleRank(apples[1].state) \in {0, 1}]_vars
    /\ [][obs'.op # "randomize"
            => LifecycleRank(apples'[1].state)
                   >= LifecycleRank(apples[1].state)]_vars
    /\ [][(obs'.op = "update_state" /\ apples[1].state = GOOD
              /\ apples[1].is_active /\ apples[1].expiry_enabled
              /\ now' - apples[1].spawn_time >= apples[1].time_to_live)
            => apples'[1].state = WARNING]_vars
    /\ [][(obs'.op = "update_state" /\ apples[1].state # POISONOUS
              /\ apples'[1].state = POISONOUS)
            => apples[1].state = WARNING
               /\ apples'[1].spawn_time = now']_vars

\* a GOOD apple was first updated after its total life had passed and is
\* WARNING
C35_Witness ==
    /\ obs.op = "update_state"
    /\ apples[1].is_active
    /\ apples[1].state = WARNING
    /\ obs.arg - apples[1].spawn_time >= apples[1].time_to_live

\* the next call turned that apple POISONOUS with a fresh timer
C35_WitnessPoisonous ==
    /\ obs.op = "update_state"
    /\ apples[1].state = POISONOUS
    /\ apples[1].spawn_time = obs.arg
    /\ obs.poisoned_at = obs.arg

\* a POISONOUS apple expired in a later call
C35_WitnessExpired ==
    /\ obs.op = "update_state"
    /\ apples[1].state = EXPIRED
    /\ obs.arg - apples[1].spawn_time >= apples[1].poison_time_to_live

----------------------------------------------------------------------------
(* PlayerDatabase.unlock_next_level alone: called for a new player's row   *)
(* with any difficulty and any completed level number, in any order        *)

InitUnlock ==
    /\ ControllerIdle
    /\ snake = Snake_new(<<2, 0>>)
    /\ apples = <<>>
    /\ now = 0
    /\ obs = ObsInit

\* unlock_next_level(player_id, difficulty, completed_level_number): returns
\* at once for player_id None (0) and for a difficulty that has no levels
UnlockCall ==
    \E pid \in {0, 1}, d \in Difficulties \cup {"Unknown"},
       completed_level_number \in
           0..(Len(LEVEL_CONFIG[DEFAULT_DIFFICULTY]) + IndexSlack) :
        /\ player_db' = IF pid = 0 \/ d \notin DOMAIN LEVEL_CONFIG
                         THEN player_db
                         ELSE unlock_next_level(player_db, d,
                                                completed_level_number)
        /\ obs' = Observe("unlock_next_level",
                          <<d, completed_level_number>>, pid)
        /\ UNCHANGED <<game_state, difficulty, settings, lm, score, snake,
                       apples, wall, last_wall_change_time,
                       state_transition_time, now, player_id, level_buttons>>

SpecUnlock == InitUnlock /\ [][UnlockCall]_vars

----------------------------------------------------------------------------
(* Sessions that end and start again: level 3 of Hard played into a        *)
(* collision, then Try Again, or the main menu, Play and a level button,   *)
(* with the clock standing still                                            *)

NextReset ==
    \/ KeyDown
    \/ CrashTick
    \/ Retry
    \/ BackToMainMenu
    \/ MainMenuPlay
    \/ LevelSelectStart

SpecReset == InitCrash /\ [][NextReset]_vars

----------------------------------------------------------------------------
(* C36 *)

\* C36: while the game is PLAYING for a registered player whose database
\* works, the number of the level played is at most the unlocked level the
\* player's row holds for the current difficulty
C36_PlayedLevelIsUnlocked ==
    (game_state = "PLAYING" /\ player_id # 0 /\ player_db # FailingDatabase)
        => get_level_number(lm) <= player_db.unlocked[difficulty]

\* 'Next Level' has just unlocked the level that is now played
C36_Witness ==
    /\ game_state = "PLAYING"
    /\ player_id # 0
    /\ obs.op = "next_level"
    /\ get_level_number(lm) > DefaultUnlocked
    /\ get_level_number(lm) = player_db.unlocked[difficulty]

\* a level was started from buttons drawn before a further level was
\* unlocked
C36_WitnessStaleButtons ==
    /\ game_state = "PLAYING"
    /\ obs.op = "start"
    /\ level_buttons.difficulty = difficulty
    /\ level_buttons.unlocked < player_db.unlocked[difficulty]

----------------------------------------------------------------------------
(* C37 *)

\* the call recorded in obs' is one that unlock_next_level acts on
UnlockApplies(db, o) ==
    /\ o.ret # 0
    /\ o.arg[1] \in Difficulties
    /\ o.arg[2] = db.unlocked[o.arg[1]]
    /\ o.arg[2] + 1 <= Len(LEVEL_CONFIG[o.arg[1]])

\* C37: unlock_next_level sets the unlocked level of the difficulty to
\* completed + 1 when completed is the unlocked level and completed + 1 is a
\* level of the difficulty, and changes nothing otherwise; so the unlocked
\* level never decreases, grows by at most 1 per call, stays within
\* 1..number of levels, and the other difficulties keep theirs
C37_UnlockNextLevel ==
    /\ [][obs'.op = "unlock_next_level"
            => IF UnlockApplies(player_db, obs')
               THEN player_db'.unlocked[obs'.arg[1]] = obs'.arg[2] + 1
               ELSE player_db' = player_db]_vars
    /\ [][\A x \in Difficulties :
            /\ player_db'.unlocked[x] - player_db.unlocked[x] \in {0, 1}
            /\ player_db'.unlocked[x] \in 1..Len(LEVEL_CONFIG[x])
            /\ (obs'.op = "unlock_next_level" /\ x # obs'.arg[1])
                  => player_db'.unlocked[x] = player_db.unlocked[x]]_vars

\* a call raised the unlocked level of its difficulty
C37_Witness ==
    /\ obs.op = "unlock_next_level"
    /\ obs.ret # 0
    /\ obs.arg[1] \in Difficulties
    /\ player_db.unlocked[obs.arg[1]] = obs.arg[2] + 1
    /\ obs.arg[2] >= DefaultUnlocked
    /\ \E x \in Difficulties : player_db.unlocked[x] # obs.arg[2] + 1

\* a call for the last level, which is the unlocked one, changed nothing
C37_WitnessLastLevel ==
    /\ obs.op = "unlock_next_level"
    /\ obs.ret # 0
    /\ obs.arg[1] \in Difficulties
    /\ obs.arg[2] = Len(LEVEL_CONFIG[obs.arg[1]])
    /\ player_db.unlocked[obs.arg[1]] = obs.arg[2]

\* a call for a level below the unlocked one changed nothing
C37_WitnessLowerLevel ==
    /\ obs.op = "unlock_next_level"
    /\ obs.ret # 0
    /\ obs.arg[1] \in Difficulties
    /\ obs.arg[2] >= DefaultUnlocked
    /\ player_db.unlocked[obs.arg[1]] > obs.arg[2] + 1

----------------------------------------------------------------------------
(* C38 *)

\* a session as a full reset leaves it: no score, the snake on its three
\* reset cells heading right, the apples and obstacles of the level of lm
\* placed now on free cells, and the game PLAYING
FreshSession ==
    LET cell_number == DIFFICULTY_SETTINGS[settings].cell_number
        initial_pos == <<cell_number \div 4, cell_number \div 2>>
        grid == {<<c, r>> : c \in 0..(cell_number - 1),
                           r \in 0..(cell_number - 1)}
    IN  /\ game_state = "PLAYING"
        /\ settings = difficulty
        /\ lm.difficulty = difficulty
        /\ score = 0
        /\ snake.body = << initial_pos,
                           <<initial_pos[1] - 1, initial_pos[2]>>,
                           <<initial_pos[1] - 2, initial_pos[2]>> >>
        /\ snake.direction = RIGHT
        /\ ~snake.new_block
        /\ Len(apples) = get_num_apples(lm)
        /\ \A i \in 1..Len(apples) :
              /\ apples[i].is_active
              /\ apples[i].state \in {GOOD, POISONOUS}
              /\ apples[i].spawn_time = now
              /\ apples[i].pos \in grid \ SeqToSet(snake.body)
              /\ \A j \in 1..Len(apples) :
                    j # i => apples[j].pos # apples[i].pos
        /\ wall \subseteq grid \ (SeqToSet(snake.body)
                                      \cup ActivePositions(apples))
        /\ Cardinality(wall) = get_num_obstacles(lm)
        /\ last_wall_change_time = now
        /\ state_transition_time = now

\* C38: 'Try Again' on the game over screen starts a fresh session of level
\* index 0 whatever level the game ended on, and a level button of the level
\* select screen starts a fresh session of the level index of that button
C38_FullReset ==
    /\ [][(game_state = "GAME_OVER" /\ game_state' = "PLAYING")
            => lm'.current_level_index = 0 /\ FreshSession']_vars
    /\ [][(game_state = "LEVEL_SELECT" /\ game_state' = "PLAYING")
            => lm'.current_level_index = obs'.arg[1] /\ FreshSession']_vars

\* 'Try Again' after the game ended on level 3: the level select screen was
\* never drawn
C38_Witness ==
    /\ game_state = "PLAYING"
    /\ obs.op = "start"
    /\ obs.ticks > 0
    /\ level_buttons.difficulty = "None"
    /\ lm.current_level_index = 0

\* level 3 started from the level select screen after a game had ended
C38_WitnessLevelSelect ==
    /\ game_state = "PLAYING"
    /\ obs.op = "start"
    /\ obs.ticks > 0
    /\ level_buttons.difficulty = difficulty
    /\ obs.arg[1] = 2
    /\ lm.current_level_index = 2

----------------------------------------------------------------------------
(* C39 *)

\* the level of manager m is the last one of its difficulty
OnLastLevel(m) == m.current_level_index = Len(LEVEL_CONFIG[m.difficulty]) - 1

\* C39: a tick without collision leaves PLAYING for the end of a level
\* exactly when the score has reached the target, to GAME_COMPLETED on the
\* last level of the difficulty and to LEVEL_TRANSITION on any other; the
\* level transition screen is therefore never shown on the last level, and
\* 'Next Level' always advances the level and returns to PLAYING
C39_CompletionBranch ==
    /\ [][(game_state = "PLAYING"
              /\ game_state' \notin {"GAME_OVER", "PAUSED"})
            => game_state' =
                  IF score' < get_target_score(lm) THEN "PLAYING"
                  ELSE IF OnLastLevel(lm) THEN "GAME_COMPLETED"
                  ELSE "LEVEL_TRANSITION"]_vars
    /\ [][game_state' = "LEVEL_TRANSITION" => ~OnLastLevel(lm')]_vars
    /\ [][(game_state = "LEVEL_TRANSITION"
              /\ game_state' \notin {"LEVEL_TRANSITION", "MAIN_MENU"})
            => /\ obs'.op = "next_level"
               /\ obs'.ret = TRUE
               /\ game_state' = "PLAYING"
               /\ lm'.current_level_index = lm.current_level_index + 1]_vars

\* a tick on the last level reached the target: the game is completed
C39_Witness ==
    /\ game_state = "GAME_COMPLETED"
    /\ obs.op \in {"apple", "tick"}
    /\ OnLastLevel(lm)
    /\ score = get_target_score(lm)

\* a tick on another level reached the target: the level transition screen
C39_WitnessTransition ==
    /\ game_state = "LEVEL_TRANSITION"
    /\ obs.op \in {"apple", "tick"}
    /\ score = get_target_score(lm)

\* 'Next Level' advanced to the last level
C39_WitnessNextLevel ==
    /\ game_state = "PLAYING"
    /\ obs.op = "next_level"
    /\ obs.ret = TRUE
    /\ OnLastLevel(lm)

====
